---------------------------- MODULE Spec2Model ----------------------------
(***************************************************************************)
(* A model of rio-cogeo: cog_translate (src/rio_cogeo/cogeo.py 44-417),    *)
(* cog_validate (src/rio_cogeo/cogeo.py 420-609), the profile registry     *)
(* (src/rio_cogeo/profiles.py) and the validate command and --bidx option  *)
(* of the command line (src/rio_cogeo/scripts/cli.py).                     *)
(*                                                                         *)
(* Python values are represented as follows.                               *)
(*   Optional value : a sequence, <<>> for None and <<v>> for the value v. *)
(*   tuple / list   : a sequence.                                          *)
(*   dict           : a function whose DOMAIN is the set of keys present.  *)
(***************************************************************************)
EXTENDS Integers, Sequences, FiniteSets, TLC

VARIABLES
    \* ---- cog_translate ----
    pc,        \* position of the call in cog_translate
    call,      \* the caller's side: arguments of the call, as passed
    src,       \* the source dataset (what src_dst reports)
    loc,       \* local variables of cog_translate
    handles,   \* every handle/resource of the call and its status
    ctx,       \* the ExitStack: resources entered with ctx.enter_context
    warns,     \* warnings emitted so far (category names, in order)
    exc,       \* the exception propagating out of the body ("none" if none)
    tmp,       \* the staging dataset tmp_dst
    dest,      \* what sits at dst_path
    \* ---- cog_validate ----
    vpc,       \* position of the call in cog_validate
    file,      \* the file under validation
    vloc,      \* local variables of cog_validate
    vhandles,  \* datasets cog_validate has opened and their status
    vchecks,   \* the checks the running call has performed so far
    vret,      \* value returned by the last finished call (<<>> before)
    reports,   \* last returned value per strict flag (<<>> if never run),
               \* with the number of runs that returned for that flag
    \* ---- cog_profiles ----
    registry,  \* the COGProfiles dict: profile name -> Profile object
    heap,      \* the Profile objects alive: object -> its mapping
    held,      \* the objects the callers of get hold: object -> its name
    pret,      \* outcome of the last cog_profiles.get (<<>> before)
    \* ---- the command line ----
    cpc,       \* position of the invocation of the cogeo command
    argv,      \* the command line of the invocation
    output,    \* what the command has printed on standard output
    exit_code  \* exit status of the process (<<>> while it runs)

tvars == <<pc, call, src, loc, handles, ctx, warns, exc, tmp, dest>>
vvars == <<vpc, file, vloc, vhandles, vchecks, vret, reports>>
pvars == <<registry, heap, held, pret>>
cvars == <<cpc, argv, output, exit_code>>
vars  == <<pc, call, src, loc, handles, ctx, warns, exc, tmp, dest,
           vpc, file, vloc, vhandles, vchecks, vret, reports,
           registry, heap, held, pret, cpc, argv, output, exit_code>>

---------------------------------------------------------------------------
(* Python values *)

None == <<>>
Some(x) == <<x>>

EmptyDict == [k \in {} |-> k]

\* dict.pop(k, None)
Pop(d, k) == [x \in (DOMAIN d) \ {k} |-> d[x]]

\* d.update(e)
Update(d, e) == e @@ d

\* d.get(k, default)
Get(d, k, default) == IF k \in DOMAIN d THEN d[k] ELSE default

Min(a, b) == IF a < b THEN a ELSE b

Max(a, b) == IF a > b THEN a ELSE b

RECURSIVE Pow2(_)
Pow2(n) == IF n <= 0 THEN 1 ELSE 2 * Pow2(n - 1)

\* int(math.log(m, 2)) for m >= 1: the floating-point quotient log(m)/log(2)
\* truncates to floor(log2 m) for every m below 2^47, which covers every
\* raster dimension (GDAL dimensions are 32-bit).
RECURSIVE Log2Int(_)
Log2Int(m) == IF m < 2 THEN 0 ELSE 1 + Log2Int(m \div 2)

IsPow2(n) == n >= 1 /\ Pow2(Log2Int(n)) = n

\* str.lower() on the compression names the model uses
Lower(s) ==
    CASE s = "JPEG" -> "jpeg"
      [] s = "Jpeg" -> "jpeg"
      [] s = "DEFLATE" -> "deflate"
      [] OTHER -> s

\* str.upper() on the photometric names the model uses
Upper(s) ==
    CASE s = "YCbCr" -> "YCBCR"
      [] s = "ycbcr" -> "YCBCR"
      [] s = "minisblack" -> "MINISBLACK"
      [] s = "nearest" -> "NEAREST"
      [] s = "bilinear" -> "BILINEAR"
      [] OTHER -> s

Range(s) == {s[i] : i \in 1..Len(s)}

---------------------------------------------------------------------------
(* Bounds of the model *)

\* at most this many block windows of the staging dataset are iterated
MaxWindows == 2

\* at most this many overview levels in a validated file
MaxOverviews == 2

\* finished runs of cog_validate are counted up to this number
MaxRuns == 2

---------------------------------------------------------------------------
(* Program constants *)

\* IN_MEMORY_THRESHOLD: staging is in memory below this many pixels
IN_MEMORY_THRESHOLD == 10980 * 10980

\* a raster whose shrunk tile size is below this cannot be tiled
MinTileSize == 64

---------------------------------------------------------------------------
(* Source datasets *)

ColorInterpOf(layout) ==
    CASE layout = "gray" -> <<"gray">>
      [] layout = "rgba" -> <<"red", "green", "blue", "alpha">>
      [] OTHER -> <<"red", "green", "blue">>

\* per-band mask flags as GDAL reports them: an alpha band marks the other
\* bands per_dataset+alpha, an internal mask marks every band per_dataset,
\* a nodata value marks every band nodata, otherwise every band is all_valid
MaskFlagsOf(layout, nodata) ==
    LET ci == ColorInterpOf(layout)
    IN  [i \in 1..Len(ci) |->
            CASE layout = "rgba" ->
                    IF ci[i] = "alpha" THEN {"all_valid"}
                    ELSE {"per_dataset", "alpha"}
              [] layout = "rgb_mask" -> {"per_dataset"}
              [] nodata # None -> {"nodata"}
              [] OTHER -> {"all_valid"}]

Dataset(layout, w, h, nodata) ==
    [width |-> w, height |-> h,
     colorinterp |-> ColorInterpOf(layout),
     mask_flag_enums |-> MaskFlagsOf(layout, nodata),
     nodata |-> nodata,
     tags |-> [DatasetName |-> "my useful dataset"]]

\* src_dst.indexes
Indexes(ds) == [i \in 1..Len(ds.colorinterp) |-> i]

\* utils.has_alpha_band
has_alpha_band(ds) ==
    \/ \E i \in 1..Len(ds.mask_flag_enums) : "alpha" \in ds.mask_flag_enums[i]
    \/ "alpha" \in Range(ds.colorinterp)

\* utils.has_mask_band
has_mask_band(ds) ==
    \E i \in 1..Len(ds.mask_flag_enums) :
        /\ "per_dataset" \in ds.mask_flag_enums[i]
        /\ "alpha" \notin ds.mask_flag_enums[i]

\* utils.non_alpha_indexes: the indexes of the bands that are not alpha
non_alpha_indexes(ds) ==
    SelectSeq(Indexes(ds), LAMBDA b : ds.colorinterp[b] # "alpha")

---------------------------------------------------------------------------
(* cog_translate: the decisions of the body, as operators *)

\* line 154: indexes if indexes else src_dst.indexes
ResolveIndexes(indexes, ds) == IF indexes # <<>> THEN indexes ELSE Indexes(ds)

\* line 155: nodata if nodata is not None else src_dst.nodata
ResolveNodata(nodata, ds) == IF nodata # None THEN nodata ELSE ds.nodata

\* ColormapConflict that tolerates up to three bands
ColormapConflict_OverThree(colormap, indexes) == colormap /\ Len(indexes) > 3

\* line 160: colormap and len(indexes) > 1
ColormapConflict(colormap, indexes) == colormap /\ Len(indexes) > 1

\* ForceMask comparing the compression name as given, without lower()
ForceMask_CaseSensitive(add_mask, nodata, alpha, d) ==
    /\ ~add_mask
    /\ (nodata # None \/ alpha)
    /\ Get(d, "compress", "") = "jpeg"

\* lines 165-168: the condition that forces an internal mask
ForceMask(add_mask, nodata, alpha, d) ==
    /\ ~add_mask
    /\ (nodata # None \/ alpha)
    /\ Lower(Get(d, "compress", "")) = "jpeg"

\* lines 173-177: indexes after the mask was forced
NarrowIndexes(indexes, ds) ==
    IF Len(indexes) \notin {1, 3} THEN non_alpha_indexes(ds) ELSE indexes

\* line 179: min(int(dst_kwargs["blockxsize"]), int(dst_kwargs["blockysize"]))
TileSize(d) == Min(d["blockxsize"], d["blockysize"])

\* SmallerThanTile asking for both dimensions to be smaller
SmallerThanTile_Both(width, height, tilesize) ==
    width < tilesize /\ height < tilesize

\* line 181
SmallerThanTile(width, height, tilesize) ==
    width < tilesize \/ height < tilesize

\* ShrunkTileSize without the rounding to a power of two
ShrunkTileSize_Min(width, height) == IF width < height THEN width ELSE height

\* line 182: 2 ** int(math.log(min(width, height), 2))
ShrunkTileSize(width, height) == Pow2(Log2Int(Min(width, height)))

\* UntiledOverviewLevel that keeps the caller's level
UntiledOverviewLevel_Kept(overview_level) == overview_level

\* line 192: the overview level of a raster that cannot be tiled
UntiledOverviewLevel(overview_level) == Some(0)

\* lines 179-201: block-size reconciliation.  The result holds the exception
\* raised ("none" if none), and the creation options, tile size, overview
\* level and warnings as they stand when the step ends or raises.
Reconcile(d, width, height, overview_level) ==
    IF "blockxsize" \notin DOMAIN d \/ "blockysize" \notin DOMAIN d
    THEN [exc |-> "KeyError", dst_kwargs |-> d, tilesize |-> 0,
          overview_level |-> overview_level, warns |-> <<>>]
    ELSE
    LET tilesize == TileSize(d)
        shrunk == ShrunkTileSize(width, height)
    IN  IF SmallerThanTile(width, height, tilesize)
        THEN IF shrunk < MinTileSize
             THEN LET popped == Pop(Pop(d, "blockxsize"), "blockysize")
                  IN  IF "tiled" \in DOMAIN popped
                      THEN [exc |-> "none",
                            dst_kwargs |-> Pop(popped, "tiled"),
                            tilesize |-> shrunk,
                            overview_level |->
                                UntiledOverviewLevel(overview_level),
                            warns |-> <<"IncompatibleBlockRasterSize">>]
                      ELSE [exc |-> "KeyError",
                            dst_kwargs |-> popped,
                            tilesize |-> shrunk,
                            overview_level |-> overview_level,
                            warns |-> <<"IncompatibleBlockRasterSize">>]
             ELSE [exc |-> "none",
                   dst_kwargs |-> Update(d, [blockxsize |-> shrunk,
                                             blockysize |-> shrunk]),
                   tilesize |-> shrunk,
                   overview_level |-> overview_level,
                   warns |-> <<"IncompatibleBlockRasterSize">>]
        ELSE [exc |-> "none", dst_kwargs |-> d, tilesize |-> tilesize,
              overview_level |-> overview_level, warns |-> <<>>]

\* lines 237-245: the creation options after the photometric correction
FixPhotometric(d, count) ==
    IF Upper(Get(d, "photometric", "")) = "YCBCR" /\ count = 1
    THEN Update(d, [photometric |-> "MINISBLACK"]) ELSE d

\* MaskedMeta that keeps the nodata and alpha keys
MaskedMeta_KeepsNodata(vrt_meta, count, add_mask) ==
    Update(vrt_meta, [count |-> count])

\* lines 230-236: the warped view's metadata with the band count set and,
\* when a mask is added, without its nodata and alpha keys
MaskedMeta(vrt_meta, count, add_mask) ==
    LET m1 == Update(vrt_meta, [count |-> count])
    IN  IF add_mask THEN Pop(Pop(m1, "nodata"), "alpha") ELSE m1

\* lines 230-252: the metadata the staging dataset is created with
StagingMeta(vrt_meta, count, add_mask, d, allow_compression, temp_compress) ==
    LET m3 == Pop(Pop(Update(MaskedMeta(vrt_meta, count, add_mask),
                             FixPhotometric(d, count)),
                      "compress"), "photometric")
    IN  IF allow_compression THEN Update(m3, [compress |-> temp_compress])
        ELSE m3

\* lines 254-255: where the staging dataset goes
InMemory(in_memory, width, height) ==
    IF in_memory = None THEN width * height < IN_MEMORY_THRESHOLD
    ELSE in_memory[1]

\* line 302: a mask is written for a window
WritesMask(add_mask, mask) == add_mask \/ mask

\* MaxOverviewLevel that also halves a size equal to minsize
RECURSIVE MaxOverviewLevel_AtLeast(_, _, _, _)
MaxOverviewLevel_AtLeast(width, height, minsize, factor) ==
    IF Min(width \div factor, height \div factor) >= minsize
    THEN 1 + MaxOverviewLevel_AtLeast(width, height, minsize, 2 * factor)
    ELSE 0

\* rasterio.rio.overview.get_maximum_overview_level, called at lines 308-310
RECURSIVE MaxOverviewLevel(_, _, _, _)
MaxOverviewLevel(width, height, minsize, factor) ==
    IF Min(width \div factor, height \div factor) > minsize
    THEN 1 + MaxOverviewLevel(width, height, minsize, 2 * factor)
    ELSE 0

get_maximum_overview_level(width, height, minsize) ==
    MaxOverviewLevel(width, height, minsize, 1)

\* line 315: [2**j for j in range(1, overview_level + 1)]
Decimations(level) == [j \in 1..level |-> Pow2(j)]

\* line 291: the number of block windows of the staging dataset, iterated
\* up to MaxWindows
BlockCount(meta) ==
    IF {"tiled", "blockxsize", "blockysize"} \subseteq DOMAIN meta
    THEN ((meta["width"] + meta["blockxsize"] - 1) \div meta["blockxsize"])
         * ((meta["height"] + meta["blockysize"] - 1) \div meta["blockysize"])
    ELSE 1

NumWindows(meta) == Min(BlockCount(meta), MaxWindows)

\* the sizes of a raster aligned with the web-mercator grid (a whole number
\* of tiles), as utils.get_web_optimized_params computes them
WebSizes == {<<512, 512>>, <<1024, 512>>}

\* VrtSizes with width and height exchanged
VrtSizes_Transposed(ds, web_optimized, use_cog_driver) ==
    IF web_optimized /\ ~use_cog_driver THEN WebSizes
    ELSE {<<ds.height, ds.width>>}

\* lines 203-227: the sizes the warped view can have.  Without
\* web-optimization it is the source's size; with it, the size comes from
\* utils.get_web_optimized_params.
VrtSizes(ds, web_optimized, use_cog_driver) ==
    IF web_optimized /\ ~use_cog_driver THEN WebSizes
    ELSE {<<ds.width, ds.height>>}

\* vrt_dst.colorinterp: the source's bands, and the alpha band the warped
\* view adds with add_alpha
VrtColorInterp(ds, add_alpha) ==
    IF add_alpha THEN Append(ds.colorinterp, "alpha") ELSE ds.colorinterp

\* lines 211-217: add_alpha of the warped view
AddAlpha(nodata, alpha) == nodata = None /\ ~alpha

\* line 345: tms.zoom_for_res(max(tmp_dst.res), ...), a zoom of the grid
DefaultZooms == {7, 8}

\* TilingSchemeOptions that takes a pinned zoom level of 0 for none
TilingSchemeOptions_Truthy(d, c, default_zoom) ==
    IF c.web_optimized /\ ~c.use_cog_driver
    THEN LET d1 == Update(d,
                    "@TILING_SCHEME_NAME" :> "WebMercatorQuad" @@
                    "@TILING_SCHEME_ZOOM_LEVEL" :>
                        (IF c.zoom_level # None /\ c.zoom_level[1] # 0
                         THEN c.zoom_level[1] ELSE default_zoom))
         IN  IF c.aligned_levels # None /\ c.aligned_levels[1] # 0
             THEN Update(d1, "@TILING_SCHEME_ALIGNED_LEVELS" :>
                                 c.aligned_levels[1])
             ELSE d1
    ELSE d

\* lines 344-362: the creation options with the tiling-scheme entries
TilingSchemeOptions(d, c, default_zoom) ==
    IF c.web_optimized /\ ~c.use_cog_driver
    THEN LET d1 == Update(d,
                    "@TILING_SCHEME_NAME" :> "WebMercatorQuad" @@
                    "@TILING_SCHEME_ZOOM_LEVEL" :>
                        (IF c.zoom_level # None THEN c.zoom_level[1]
                         ELSE default_zoom))
         IN  IF c.aligned_levels # None /\ c.aligned_levels[1] # 0
             THEN Update(d1, "@TILING_SCHEME_ALIGNED_LEVELS" :>
                                 c.aligned_levels[1])
             ELSE d1
    ELSE d

\* DatasetTags in which the source's own tags are applied last
DatasetTags_SourceLast(src_tags, overview_resampling, additional) ==
    Update(Update([OVR_RESAMPLING_ALG |-> Upper(overview_resampling)],
                  additional), src_tags)

\* lines 326-335: the dataset tags written at line 364
DatasetTags(src_tags, overview_resampling, additional) ==
    Update(Update(src_tags, [OVR_RESAMPLING_ALG |-> Upper(overview_resampling)]),
           additional)

\* lines 377-412: the options handed to the COG driver
CogDriverOptions(d, c, tilesize) ==
    LET d1 == Update(d, [driver |-> "COG"])
        d2 == IF c.web_optimized
              THEN LET w1 == Update(d1, [TILING_SCHEME |-> "GoogleMapsCompatible"])
                       w2 == IF c.zoom_level # None
                             THEN Update(w1, [ZOOM_LEVEL |-> c.zoom_level[1]])
                             ELSE w1
                       w3 == Update(w2, [ZOOM_LEVEL_STRATEGY |-> c.zoom_level_strategy])
                   IN  IF c.aligned_levels # None
                       THEN Update(w3, [aligned_levels |-> c.aligned_levels[1] + 1])
                       ELSE w3
              ELSE d1
        d3 == Update(d2, [overview_resampling |-> c.overview_resampling,
                          warp_resampling |-> c.resampling,
                          blocksize |-> tilesize])
    IN  Pop(Pop(Pop(Pop(Pop(d3, "blockxsize"), "blockysize"), "tiled"),
                "interleave"), "photometric")

\* lines 412-417: the sizes copy() can give the destination: those of the
\* staging dataset, unless the COG driver re-projects it on a tiling scheme
CopySizes(meta, options) ==
    IF "TILING_SCHEME" \in DOMAIN options THEN WebSizes
    ELSE {<<meta["width"], meta["height"]>>}

\* Released that leaves the staging dataset open
Released_LeavesDataset(h) ==
    IF h = "tmp_dst" THEN "open"
    ELSE IF h = "tmpraster" THEN "removed" ELSE "closed"

\* ExitStack and context managers: what leaving a context does to a resource
Released(h) == IF h = "tmpraster" THEN "removed" ELSE "closed"

---------------------------------------------------------------------------
(* cog_translate: the calls the model makes *)

\* rio_cogeo.profiles.DEFLATEProfile.defaults
DeflateProfile ==
    [driver |-> "GTiff", interleave |-> "pixel", tiled |-> TRUE,
     blockxsize |-> 512, blockysize |-> 512, compress |-> "DEFLATE"]

\* a dict with key k bound to one of vs, or without key k
Optional(k, vs) == {EmptyDict} \cup {k :> v : v \in vs}

\* the default arguments of cog_translate (lines 44-70), on a source given
\* as a path, with the deflate profile
DefaultCall ==
    [source_open |-> FALSE, dst_kwargs |-> DeflateProfile,
     indexes |-> <<>>, nodata |-> None, add_mask |-> FALSE,
     overview_level |-> None, overview_resampling |-> "nearest",
     web_optimized |-> FALSE, zoom_level_strategy |-> "auto",
     zoom_level |-> None, aligned_levels |-> None, resampling |-> "nearest",
     in_memory |-> None, allow_intermediate_compression |-> FALSE,
     quiet |-> FALSE, temporary_compression |-> "DEFLATE",
     colormap |-> FALSE, additional_cog_metadata |-> EmptyDict,
     use_cog_driver |-> FALSE, gdal_at_least_31 |-> TRUE]

\* raster sizes: below 64, between a power of two and the next, large
Dims == {40, 171, 600}

\* a size at which the default staging is on disk (above 10980 x 10980)
HugeDim == 10980 + 20

\* block sizes a caller can ask for: below 64, not a power of two, and two
\* usual ones
BlockSizes == {32, 96, 128, 512}

\* calls that vary the block-size options, the raster size, the pinned
\* overview level and the driver path
BlockCalls ==
    {[DefaultCall EXCEPT !.dst_kwargs = bx @@ by @@ tl @@
                             [driver |-> "GTiff", compress |-> "DEFLATE"],
                         !.overview_level = ol,
                         !.use_cog_driver = cog] :
        bx \in Optional("blockxsize", BlockSizes),
        by \in Optional("blockysize", BlockSizes),
        tl \in Optional("tiled", {TRUE}),
        ol \in {None, Some(0), Some(1)},
        cog \in BOOLEAN}

BlockSources == {Dataset("rgb", w, h, None) : w \in Dims, h \in Dims}

\* calls that vary compression, nodata, mask, band indexes and colormap
MaskCalls ==
    {[DefaultCall EXCEPT !.dst_kwargs = cp @@ nd @@
                             [tiled |-> TRUE, blockxsize |-> 128,
                              blockysize |-> 128],
                         !.indexes = ix, !.nodata = n, !.add_mask = am,
                         !.colormap = cm, !.quiet = TRUE] :
        cp \in {[compress |-> "JPEG", photometric |-> "YCbCr"],
                [compress |-> "jpeg"], [compress |-> "DEFLATE"], EmptyDict},
        nd \in Optional("nodata", {Some(0)}),
        ix \in {<<>>, <<1>>, <<1, 2>>, <<1, 2, 3>>},
        n \in {None, Some(0)}, am \in BOOLEAN, cm \in BOOLEAN}

MaskSources ==
    {Dataset(l, 171, 171, n) :
        l \in {"gray", "rgb", "rgba", "rgb_mask"}, n \in {None, Some(0)}}

\* calls that vary who owns the source, the staging target, the driver path
\* and the engine version
HandleCalls ==
    {[DefaultCall EXCEPT !.source_open = so, !.in_memory = im,
                         !.web_optimized = web, !.use_cog_driver = cog,
                         !.gdal_at_least_31 = gv, !.quiet = q] :
        so \in BOOLEAN, im \in {None, Some(TRUE), Some(FALSE)},
        web \in BOOLEAN, cog \in BOOLEAN, gv \in BOOLEAN, q \in BOOLEAN}

HandleSources == {Dataset("rgb", d, d, None) : d \in {600, HugeDim}}

\* web-optimized and plain calls that vary the driver path, the pinned zoom
\* level and the aligned levels
WebCalls ==
    {[DefaultCall EXCEPT !.web_optimized = web, !.use_cog_driver = cog,
                         !.zoom_level = z, !.aligned_levels = al,
                         !.quiet = TRUE] :
        web \in BOOLEAN, cog \in BOOLEAN, z \in {None, Some(0), Some(5)},
        al \in {None, Some(0), Some(2)}}

WebSources == {Dataset("rgb", 600, 600, None)}

\* calls that vary the block size and the pinned overview level, on rasters
\* one pixel larger than a power of two
OverviewCalls ==
    {[DefaultCall EXCEPT !.dst_kwargs = [driver |-> "GTiff", tiled |-> TRUE,
                                         compress |-> "DEFLATE",
                                         blockxsize |-> b, blockysize |-> b],
                         !.overview_level = ol, !.quiet = TRUE] :
        b \in {128, 512}, ol \in {None, Some(0), Some(2)}}

OverviewSources ==
    {Dataset("rgb", w, h, None) : w \in {257, 1025}, h \in {257, 1025}}

\* calls that vary the overview resampling and the additional metadata
TagCalls ==
    {[DefaultCall EXCEPT !.overview_resampling = r,
                         !.additional_cog_metadata = a, !.quiet = TRUE] :
        r \in {"nearest", "bilinear"},
        a \in {EmptyDict, [comment |-> "it should work"],
               [DatasetName |-> "renamed"],
               [OVR_RESAMPLING_ALG |-> "custom"]}}

\* sources with and without an OVR_RESAMPLING_ALG tag of their own
TagSources ==
    {[Dataset("rgb", 600, 600, None) EXCEPT !.tags = t] :
        t \in {[DatasetName |-> "my useful dataset"],
               [DatasetName |-> "my useful dataset",
                OVR_RESAMPLING_ALG |-> "CUBIC"]}}

NoLocals ==
    [dst_kwargs |-> EmptyDict, indexes |-> <<>>, nodata |-> None,
     add_mask |-> FALSE, overview_level |-> None, alpha |-> FALSE,
     mask |-> FALSE, tilesize |-> 0, add_alpha |-> TRUE,
     vrt_width |-> 0, vrt_height |-> 0, meta |-> EmptyDict,
     in_memory |-> FALSE, nwind |-> 0, dst_kwargs_object |-> "none"]

NoStaging ==
    [meta |-> EmptyDict, colorinterp |-> <<>>, colormap |-> FALSE,
     written |-> 0, masked |-> 0, overviews |-> None,
     described |-> FALSE, tags |-> EmptyDict]

NoDest == [state |-> "absent", options |-> EmptyDict,
           copy_src_overviews |-> FALSE, tags |-> EmptyDict,
           width |-> 0, height |-> 0]

HandleNames == {"source", "vrt", "memfile", "tmpraster", "tmp_dst", "fout"}

\* no call of cog_validate is in progress
ValidateIdle ==
    /\ vpc = "idle"
    /\ file = EmptyDict
    /\ vloc = EmptyDict
    /\ vhandles = EmptyDict
    /\ vchecks = {}
    /\ vret = None
    /\ reports = EmptyDict

\* cog_profiles.get is not in use
ProfilesIdle ==
    /\ registry = EmptyDict
    /\ heap = EmptyDict
    /\ held = EmptyDict
    /\ pret = None

\* no cogeo command is running
CliIdle ==
    /\ cpc = "idle"
    /\ argv = EmptyDict
    /\ output = <<>>
    /\ exit_code = None

\* the caller's dst_kwargs mapping as it is now: what was passed, unless the
\* function works on that very object
CallerMapping ==
    IF loc.dst_kwargs_object = "caller" THEN loc.dst_kwargs
    ELSE call.dst_kwargs

\* the state as cog_translate is entered
TranslateEntered(c, ds) ==
    /\ pc = "start"
    /\ call = c
    /\ src = ds
    /\ loc = NoLocals
    /\ handles = [h \in HandleNames |->
                    IF h = "source" /\ c.source_open THEN "open" ELSE "none"]
    /\ ctx = <<>>
    /\ warns = <<>>
    /\ exc = "none"
    /\ tmp = NoStaging
    /\ dest = NoDest

Init ==
    /\ ValidateIdle
    /\ ProfilesIdle
    /\ CliIdle
    /\ \/ \E c \in BlockCalls, ds \in BlockSources : TranslateEntered(c, ds)
       \/ \E c \in MaskCalls, ds \in MaskSources : TranslateEntered(c, ds)
       \/ \E c \in HandleCalls, ds \in HandleSources : TranslateEntered(c, ds)
       \/ \E c \in OverviewCalls, ds \in OverviewSources :
             TranslateEntered(c, ds)
       \/ \E c \in TagCalls, ds \in TagSources : TranslateEntered(c, ds)
       \/ \E c \in WebCalls, ds \in WebSources : TranslateEntered(c, ds)

---------------------------------------------------------------------------
(* cog_translate: the steps *)

\* an exception leaves the body: the with-block of the warped view exits
\* first, then the ExitStack
Raise(e) ==
    /\ exc' = e
    /\ pc' = IF handles["vrt"] = "open" THEN "exit_vrt" ELSE "exit_ctx"

\* ctx.enter_context(h)
Enter(h) ==
    /\ handles' = [handles EXCEPT ![h] = IF h = "tmpraster" THEN "exists"
                                        ELSE "open"]
    /\ ctx' = Append(ctx, h)

\* Start without the copy of line 140: the local name stays bound to the
\* caller's mapping
Start_NoCopy ==
    /\ pc = "start"
    /\ loc' = [loc EXCEPT !.dst_kwargs = call.dst_kwargs,
                          !.dst_kwargs_object = "caller"]
    /\ IF call.source_open
       THEN UNCHANGED <<handles, ctx>>
       ELSE Enter("source")
    /\ pc' = "resolve"
    /\ UNCHANGED <<call, src, warns, exc, tmp, dest>>

\* lines 138-151: bind dst_kwargs to a new mapping with the caller's
\* entries, open the source if it is a path
Start ==
    /\ pc = "start"
    /\ loc' = [loc EXCEPT !.dst_kwargs = call.dst_kwargs,
                          !.dst_kwargs_object = "copy"]
    /\ IF call.source_open
       THEN UNCHANGED <<handles, ctx>>
       ELSE Enter("source")
    /\ pc' = "resolve"
    /\ UNCHANGED <<call, src, warns, exc, tmp, dest>>

\* lines 153-158
Resolve ==
    /\ pc = "resolve"
    /\ loc' = [loc EXCEPT !.indexes = ResolveIndexes(call.indexes, src),
                          !.nodata = ResolveNodata(call.nodata, src),
                          !.add_mask = call.add_mask,
                          !.overview_level = call.overview_level,
                          !.alpha = has_alpha_band(src),
                          !.mask = has_mask_band(src)]
    /\ pc' = "check_colormap"
    /\ UNCHANGED <<call, src, handles, ctx, warns, exc, tmp, dest>>

\* lines 160-163
CheckColormap ==
    /\ pc = "check_colormap"
    /\ IF ColormapConflict(call.colormap, loc.indexes)
       THEN Raise("IncompatibleOptions")
       ELSE pc' = "mask_policy" /\ UNCHANGED exc
    /\ UNCHANGED <<call, src, loc, handles, ctx, warns, tmp, dest>>

\* lines 165-177
MaskPolicy ==
    /\ pc = "mask_policy"
    /\ IF ForceMask(loc.add_mask, loc.nodata, loc.alpha, loc.dst_kwargs)
       THEN /\ warns' = Append(warns, "UserWarning")
            /\ loc' = [loc EXCEPT !.add_mask = TRUE,
                                  !.indexes = NarrowIndexes(loc.indexes, src)]
       ELSE UNCHANGED <<warns, loc>>
    /\ pc' = "blocksize"
    /\ UNCHANGED <<call, src, handles, ctx, exc, tmp, dest>>

\* lines 179-201
BlockSize ==
    /\ pc = "blocksize"
    /\ LET r == Reconcile(loc.dst_kwargs, src.width, src.height,
                          loc.overview_level)
       IN  /\ loc' = [loc EXCEPT !.dst_kwargs = r.dst_kwargs,
                                 !.tilesize = r.tilesize,
                                 !.overview_level = r.overview_level]
           /\ warns' = warns \o r.warns
           /\ IF r.exc # "none" THEN Raise(r.exc)
              ELSE pc' = "vrt_params" /\ UNCHANGED exc
    /\ UNCHANGED <<call, src, handles, ctx, tmp, dest>>

\* lines 203-227
VrtParams ==
    /\ pc = "vrt_params"
    /\ \E sz \in VrtSizes(src, call.web_optimized, call.use_cog_driver) :
          loc' = [loc EXCEPT !.add_alpha = AddAlpha(loc.nodata, loc.alpha),
                             !.vrt_width = sz[1], !.vrt_height = sz[2]]
    /\ pc' = "open_vrt"
    /\ UNCHANGED <<call, src, handles, ctx, warns, exc, tmp, dest>>

\* lines 229-252: open the warped view, derive the staging metadata
OpenVRT ==
    /\ pc = "open_vrt"
    /\ handles' = [handles EXCEPT !["vrt"] = "open"]
    /\ LET count == Len(loc.indexes)
           vrt_meta == [driver |-> "VRT", width |-> loc.vrt_width,
                        height |-> loc.vrt_height, nodata |-> loc.nodata,
                        count |-> Len(VrtColorInterp(src, loc.add_alpha))]
           fixed == FixPhotometric(loc.dst_kwargs, count)
       IN  /\ loc' = [loc EXCEPT
                        !.meta = StagingMeta(vrt_meta, count, loc.add_mask,
                                    loc.dst_kwargs,
                                    call.allow_intermediate_compression,
                                    call.temporary_compression),
                        !.dst_kwargs = fixed]
           /\ warns' = IF fixed # loc.dst_kwargs
                       THEN Append(warns, "UserWarning") ELSE warns
    /\ pc' = "stage_file"
    /\ UNCHANGED <<call, src, ctx, exc, tmp, dest>>

\* lines 254-258, 261: MemoryFile() or TemporaryRasterFile(dst_path)
StageFile ==
    /\ pc = "stage_file"
    /\ LET mem == InMemory(call.in_memory, loc.vrt_width, loc.vrt_height)
       IN  /\ loc' = [loc EXCEPT !.in_memory = mem]
           /\ Enter(IF mem THEN "memfile" ELSE "tmpraster")
    /\ pc' = "stage_dataset"
    /\ UNCHANGED <<call, src, warns, exc, tmp, dest>>

\* lines 259, 262-264: open the staging dataset with the metadata
StageDataset ==
    /\ pc = "stage_dataset"
    /\ Enter("tmp_dst")
    /\ tmp' = [NoStaging EXCEPT !.meta = loc.meta]
    /\ pc' = "color"
    /\ UNCHANGED <<call, src, loc, warns, exc, dest>>

\* lines 266-289: colour interpretation and colormap
Color ==
    /\ pc = "color"
    /\ LET vci == VrtColorInterp(src, loc.add_alpha)
       IN  IF \E i \in 1..Len(loc.indexes) : loc.indexes[i] > Len(vci)
           THEN /\ Raise("IndexError")
                /\ UNCHANGED <<tmp, warns>>
           ELSE LET ci == IF Len(loc.indexes) = 1
                             /\ vci[loc.indexes[1]] # "palette"
                          THEN <<"gray">>
                          ELSE [i \in 1..Len(loc.indexes) |->
                                   vci[loc.indexes[i]]]
                IN  /\ IF call.colormap
                       THEN /\ tmp' = [tmp EXCEPT
                                          !.colorinterp = <<"palette">>,
                                          !.colormap = TRUE]
                            /\ warns' = IF ci[1] # "palette"
                                        THEN Append(warns, "UserWarning")
                                        ELSE warns
                       ELSE /\ tmp' = [tmp EXCEPT !.colorinterp = ci]
                            /\ UNCHANGED warns
                    /\ pc' = "progress"
                    /\ UNCHANGED exc
    /\ UNCHANGED <<call, src, loc, handles, ctx, dest>>

\* lines 291-297: list the block windows, open os.devnull when quiet
Progress ==
    /\ pc = "progress"
    /\ loc' = [loc EXCEPT !.nwind = NumWindows(tmp.meta)]
    /\ IF call.quiet THEN Enter("fout") ELSE UNCHANGED <<handles, ctx>>
    /\ pc' = "windows"
    /\ UNCHANGED <<call, src, warns, exc, tmp, dest>>

\* lines 298-305: one iteration of the loop over the block windows
WriteWindow ==
    /\ pc = "windows"
    /\ tmp.written < loc.nwind
    /\ tmp' = [tmp EXCEPT !.written = @ + 1,
                          !.masked = IF WritesMask(loc.add_mask, loc.mask)
                                     THEN @ + 1 ELSE @]
    /\ UNCHANGED <<pc, call, src, loc, handles, ctx, warns, exc, dest>>

\* the loop over the block windows ends
\* WindowsDone that leaves the loop whatever was written
WindowsDone_Early ==
    /\ pc = "windows"
    /\ pc' = "overviews"
    /\ UNCHANGED <<call, src, loc, handles, ctx, warns, exc, tmp, dest>>

WindowsDone ==
    /\ pc = "windows"
    /\ tmp.written >= loc.nwind
    /\ pc' = "overviews"
    /\ UNCHANGED <<call, src, loc, handles, ctx, warns, exc, tmp, dest>>

\* lines 307-316
Overviews ==
    /\ pc = "overviews"
    /\ LET level == IF loc.overview_level = None
                    THEN get_maximum_overview_level(loc.vrt_width,
                            loc.vrt_height, loc.tilesize)
                    ELSE loc.overview_level[1]
       IN  /\ loc' = [loc EXCEPT !.overview_level = Some(level)]
           /\ tmp' = [tmp EXCEPT !.overviews = Some(Decimations(level))]
    /\ pc' = "tags"
    /\ UNCHANGED <<call, src, handles, ctx, warns, exc, dest>>

\* lines 318-366: band descriptions, tags, tiling-scheme options
Tags ==
    /\ pc = "tags"
    /\ tmp' = [tmp EXCEPT !.described = TRUE,
                          !.tags = DatasetTags(src.tags,
                                      call.overview_resampling,
                                      call.additional_cog_metadata)]
    /\ \E z \in DefaultZooms :
          loc' = [loc EXCEPT !.dst_kwargs =
                    TilingSchemeOptions(loc.dst_kwargs, call, z)]
    /\ pc' = "finalize"
    /\ UNCHANGED <<call, src, handles, ctx, warns, exc, dest>>

\* the COG driver was asked for and the engine is older than 3.1
EngineTooOld == call.use_cog_driver /\ ~call.gdal_at_least_31

\* lines 371-417: the final copy
\* Finalize that looks at the engine version after the copy
Finalize_CheckAfterCopy ==
    /\ pc = "finalize"
    /\ LET opts == IF call.use_cog_driver
                    THEN CogDriverOptions(loc.dst_kwargs, call, loc.tilesize)
                    ELSE loc.dst_kwargs
       IN  /\ \E sz \in CopySizes(tmp.meta, opts) :
                 dest' = [state |-> "written", options |-> opts,
                          copy_src_overviews |-> ~call.use_cog_driver,
                          tags |-> tmp.tags,
                          width |-> sz[1], height |-> sz[2]]
           /\ IF EngineTooOld
              THEN Raise("Exception") /\ UNCHANGED loc
              ELSE /\ loc' = [loc EXCEPT !.dst_kwargs = opts]
                   /\ pc' = "exit_vrt"
                   /\ UNCHANGED exc
    /\ UNCHANGED <<call, src, handles, ctx, tmp, warns>>

Finalize ==
    /\ pc = "finalize"
    /\ IF EngineTooOld
       THEN /\ Raise("Exception")
            /\ UNCHANGED <<loc, warns, dest>>
       ELSE /\ LET opts == IF call.use_cog_driver
                           THEN CogDriverOptions(loc.dst_kwargs, call,
                                                 loc.tilesize)
                           ELSE loc.dst_kwargs
               IN  /\ loc' = [loc EXCEPT !.dst_kwargs = opts]
                   /\ \E sz \in CopySizes(tmp.meta, opts) :
                         dest' = [state |-> "written", options |-> opts,
                                  copy_src_overviews |->
                                      ~call.use_cog_driver,
                                  tags |-> tmp.tags,
                                  width |-> sz[1], height |-> sz[2]]
            /\ warns' = IF /\ call.use_cog_driver
                           /\ loc.add_mask
                           /\ Get(loc.dst_kwargs, "compress", "") # "JPEG"
                        THEN Append(warns, "UserWarning") ELSE warns
            /\ pc' = "exit_vrt"
            /\ UNCHANGED exc
    /\ UNCHANGED <<call, src, handles, ctx, tmp>>

\* the engine fails in the operation of the current step (open, create,
\* read, write, build_overviews, update_tags): its error leaves the body
EngineError ==
    /\ \/ pc = "start" /\ ~call.source_open
       \/ pc \in {"open_vrt", "stage_file", "stage_dataset", "color",
                  "overviews", "tags"}
       \/ pc = "windows" /\ tmp.written < loc.nwind
    /\ Raise("EngineError")
    /\ UNCHANGED <<call, src, loc, handles, ctx, warns, tmp, dest>>

\* the final copy itself fails: the destination is untouched or cut short
CopyError ==
    /\ pc = "finalize"
    /\ ~EngineTooOld
    /\ Raise("EngineError")
    /\ \E st \in {dest.state, "partial"} : dest' = [dest EXCEPT !.state = st]
    /\ UNCHANGED <<call, src, loc, handles, ctx, warns, tmp>>

\* line 229: the with-block of the warped view exits
ExitVRT ==
    /\ pc = "exit_vrt"
    /\ handles' = [handles EXCEPT !["vrt"] = Released("vrt")]
    /\ pc' = "exit_ctx"
    /\ UNCHANGED <<call, src, loc, ctx, warns, exc, tmp, dest>>

\* ExitContext releasing what was entered first, first
ExitContext_FirstInFirstOut ==
    /\ pc = "exit_ctx"
    /\ ctx # <<>>
    /\ handles' = [handles EXCEPT ![ctx[1]] = Released(ctx[1])]
    /\ ctx' = Tail(ctx)
    /\ UNCHANGED <<pc, call, src, loc, warns, exc, tmp, dest>>

\* line 147: the ExitStack releases what it holds, last entered first
ExitContext ==
    /\ pc = "exit_ctx"
    /\ ctx # <<>>
    /\ LET h == ctx[Len(ctx)]
       IN  handles' = [handles EXCEPT ![h] = Released(h)]
    /\ ctx' = SubSeq(ctx, 1, Len(ctx) - 1)
    /\ UNCHANGED <<pc, call, src, loc, warns, exc, tmp, dest>>

\* cog_translate returns or raises to its caller
Leave ==
    /\ pc = "exit_ctx"
    /\ ctx = <<>>
    /\ pc' = "done"
    /\ UNCHANGED <<call, src, loc, handles, ctx, warns, exc, tmp, dest>>

TranslateNext ==
    \/ Start \/ Resolve \/ CheckColormap \/ MaskPolicy \/ BlockSize
    \/ VrtParams \/ OpenVRT \/ StageFile \/ StageDataset \/ Color
    \/ Progress \/ WriteWindow \/ WindowsDone \/ Overviews \/ Tags
    \/ Finalize \/ EngineError \/ CopyError
    \/ ExitVRT \/ ExitContext \/ Leave

Next == TranslateNext /\ UNCHANGED <<vvars, pvars, cvars>>

Spec == Init /\ [][Next]_vars

---------------------------------------------------------------------------
(* cog_validate: the files the model validates *)

\* the bound of lines 477, 592: a level larger than this in both dimensions
\* has to be tiled
TileThreshold == 512

\* the bound of line 502 on the offset of the main IFD
MaxMainIFDOffset == 300

\* overview level i (1 = the first overview) of a well-formed COG of n
\* overviews: decimation 2^i, IFDs in increasing order after the main one,
\* data of the smallest level first
GoodLevel(i) ==
    [dec |-> Pow2(i), ifd_offset |-> 100 + 20 * i,
     block_offset |-> Some(1000 - 100 * i),
     width |-> 2200 \div Pow2(i), height |-> 2200 \div Pow2(i),
     is_tiled |-> TRUE]

GoodFile(n) ==
    [driver |-> "GTiff", files |-> <<".tif">>, width |-> 2200,
     height |-> 2200, is_tiled |-> TRUE, ifd_offset |-> 8,
     block_offset |-> Some(1000), levels |-> [i \in 1..n |-> GoodLevel(i)]]

\* src.files, each file by its pathlib suffix: the image alone, with an
\* external overview file, or with an external mask file
FileLists == {<<".tif">>, <<".tif", ".ovr">>, <<".tif", ".msk">>}

\* files that vary what the main image reports
HeaderFiles ==
    {[GoodFile(n) EXCEPT !.driver = dr, !.files = fs, !.width = w,
                         !.height = h, !.is_tiled = tl, !.ifd_offset = ifd] :
        n \in {0, 1}, dr \in {"GTiff", "JPEG"}, fs \in FileLists,
        w \in {TileThreshold, TileThreshold + 1},
        h \in {TileThreshold, TileThreshold + 1}, tl \in BOOLEAN,
        ifd \in {8, MaxMainIFDOffset, MaxMainIFDOffset + 1}}

\* the sequences of length n over S
SeqsOf(S, n) == [1..n -> S]

\* files that vary the decimation factors of the overviews
DecimationFiles ==
    UNION {{[GoodFile(n) EXCEPT !.levels =
                [i \in 1..n |-> [GoodLevel(i) EXCEPT !.dec = d[i]]]] :
             d \in SeqsOf({1, 2, 4}, n)} : n \in 1..MaxOverviews}

\* files that vary the IFD offsets of the overviews; the IFDs of a file are
\* distinct directories, so no two are at the same offset
IFDFiles ==
    UNION {{[GoodFile(n) EXCEPT !.levels =
                [i \in 1..n |-> [GoodLevel(i) EXCEPT !.ifd_offset = o[i]]]] :
             o \in {q \in SeqsOf({4, 120, 140, 160}, n) :
                       \A i, j \in 1..n : i # j => q[i] # q[j]}} :
           n \in 1..MaxOverviews}

\* files that vary the offsets of the first blocks (None: the tag is
\* absent); the blocks of two levels are not at the same offset
BlockFiles ==
    UNION {{[GoodFile(n) EXCEPT !.block_offset = b[1], !.levels =
                [i \in 1..n |-> [GoodLevel(i) EXCEPT
                                    !.block_offset = b[i + 1]]]] :
             b \in {q \in SeqsOf({None, Some(50), Some(800), Some(900)},
                                n + 1) :
                       \A i, j \in 1..(n + 1) :
                           (i # j /\ q[i] # None) => q[i] # q[j]}} :
           n \in 0..MaxOverviews}

\* files that vary the size and tiling of the overviews
TilingFiles ==
    UNION {{[GoodFile(n) EXCEPT !.levels =
                [i \in 1..n |-> [GoodLevel(i) EXCEPT
                                    !.width = t[i][1], !.height = t[i][2],
                                    !.is_tiled = t[i][3]]]] :
             t \in SeqsOf({<<513, 513, FALSE>>, <<513, 513, TRUE>>,
                           <<513, 512, FALSE>>}, n)} : n \in 1..MaxOverviews}

Files == HeaderFiles \cup DecimationFiles \cup IFDFiles \cup BlockFiles
            \cup TilingFiles

\* src.overviews(1)
OverviewsOf(f) == [i \in 1..Len(f.levels) |-> f.levels[i].dec]

---------------------------------------------------------------------------
(* cog_validate: the decisions of the body, as operators *)

\* sorted(overviews) == overviews, for a list
IsSorted(s) == \A i \in 1..(Len(s) - 1) : s[i] <= s[i + 1]

\* int(block_offset) if block_offset else 0
DataOffset(block_offset) ==
    IF block_offset # None THEN block_offset[1] ELSE 0

\* line 462
NotGeoTIFF(f) == f.driver # "GTiff"

\* ExternalOverviews satisfied by any associated file beside the image
ExternalOverviews_AnySidecar(f) == Len(f.files) > 1

\* line 471
ExternalOverviews(f) == \E i \in 1..Len(f.files) : f.files[i] = ".ovr"

\* LargerThanTile satisfied by one dimension alone
LargerThanTile_Either(width, height) ==
    width > TileThreshold \/ height > TileThreshold

\* lines 477, 592
LargerThanTile(width, height) ==
    width > TileThreshold /\ height > TileThreshold

\* lines 477-487: the errors and warnings of the main image's tiling check
TilingErrors(f) ==
    IF LargerThanTile(f.width, f.height) /\ ~f.is_tiled
    THEN <<<<"not_tiled", 0>>>> ELSE <<>>

TilingWarnings(f) ==
    IF LargerThanTile(f.width, f.height) /\ OverviewsOf(f) = <<>>
    THEN <<<<"no_overviews", 0>>>> ELSE <<>>

\* MainIFDErrors rejecting an offset of exactly 300 too
MainIFDErrors_AtLeast(ifd_offset) ==
    IF ifd_offset >= MaxMainIFDOffset THEN <<<<"main_ifd_offset", 0>>>>
    ELSE <<>>

\* line 502
MainIFDErrors(ifd_offset) ==
    IF ifd_offset > MaxMainIFDOffset THEN <<<<"main_ifd_offset", 0>>>>
    ELSE <<>>

\* SortedErrors asking for strictly increasing decimations
SortedErrors_Strict(overviews) ==
    IF \E i \in 1..(Len(overviews) - 1) : overviews[i] >= overviews[i + 1]
    THEN <<<<"overviews_not_sorted", 0>>>> ELSE <<>>

\* lines 511-512
SortedErrors(overviews) ==
    IF overviews # <<>> /\ ~IsSorted(overviews)
    THEN <<<<"overviews_not_sorted", 0>>>> ELSE <<>>

\* OverviewErrors comparing every overview's IFD with the main image's
OverviewErrors_AgainstMain(ix, dec, ifd_offsets) ==
    (IF ~(dec > 1) THEN <<<<"invalid_decimation", ix>>>> ELSE <<>>)
    \o (IF ifd_offsets[Len(ifd_offsets)] < ifd_offsets[1]
        THEN <<<<"ifd_offset_order", ix>>>> ELSE <<>>)

\* lines 519-546: the errors of overview ix (0-based), given the IFD offsets
\* collected so far, the overview's own last
OverviewErrors(ix, dec, ifd_offsets) ==
    (IF ~(dec > 1) THEN <<<<"invalid_decimation", ix>>>> ELSE <<>>)
    \o (IF ifd_offsets[Len(ifd_offsets)] < ifd_offsets[Len(ifd_offsets) - 1]
        THEN <<<<"ifd_offset_order", ix>>>> ELSE <<>>)

\* BlockAfterIFDErrors looking at the main image instead of the last level
BlockAfterIFDErrors_Main(data_offsets, ifd_offsets, n_overviews) ==
    IF data_offsets[1] # 0 /\ data_offsets[1] < ifd_offsets[1]
    THEN IF n_overviews > 0 THEN <<<<"smallest_block_before_ifd", 0>>>>
         ELSE <<<<"block_before_ifd", 0>>>>
    ELSE <<>>

\* lines 563-573
BlockAfterIFDErrors(data_offsets, ifd_offsets, n_overviews) ==
    IF /\ data_offsets[Len(data_offsets)] # 0
       /\ data_offsets[Len(data_offsets)] < ifd_offsets[Len(ifd_offsets)]
    THEN IF n_overviews > 0 THEN <<<<"smallest_block_before_ifd", 0>>>>
         ELSE <<<<"block_before_ifd", 0>>>>
    ELSE <<>>

\* lines 575-580: for i in range(len(data_offsets) - 2, 0, -1); Python index
\* i is position i + 1 of the sequence
RECURSIVE OverviewBlockOrderErrors(_, _)
OverviewBlockOrderErrors(data_offsets, i) ==
    IF i <= 0 THEN <<>>
    ELSE (IF data_offsets[i + 1] < data_offsets[i + 2]
          THEN <<<<"overview_block_order", i - 1>>>> ELSE <<>>)
         \o OverviewBlockOrderErrors(data_offsets, i - 1)

\* MainBlockOrderErrors that leaves the pair (main image, overview 0) out
MainBlockOrderErrors_None(data_offsets) == <<>>

\* lines 582-588
MainBlockOrderErrors(data_offsets) ==
    IF Len(data_offsets) >= 2 /\ data_offsets[1] < data_offsets[2]
    THEN <<<<"main_block_order", 0>>>> ELSE <<>>

\* lines 592-594
\* ReopenErrors that reports every level under index 0
ReopenErrors_IndexZero(ix, level) ==
    IF LargerThanTile(level.width, level.height) /\ ~level.is_tiled
    THEN <<<<"overview_not_tiled", 0>>>> ELSE <<>>

ReopenErrors(ix, level) ==
    IF LargerThanTile(level.width, level.height) /\ ~level.is_tiled
    THEN <<<<"overview_not_tiled", ix>>>> ELSE <<>>

\* IsValid with the strict flag left out: warnings never invalidate
IsValid_IgnoresStrict(errors, warnings, strict) ==
    IF errors # <<>> THEN FALSE ELSE TRUE

\* line 607
IsValid(errors, warnings, strict) ==
    IF errors # <<>> \/ (warnings # <<>> /\ strict) THEN FALSE ELSE TRUE

---------------------------------------------------------------------------
(* cog_validate: the steps *)

NoValidateLocals ==
    [strict |-> FALSE, errors |-> <<>>, warnings |-> <<>>,
     ifd_offsets |-> <<>>, data_offsets |-> <<>>, ix |-> 0]

\* no call of cog_translate is in progress
TranslateIdle ==
    /\ pc = "idle"
    /\ call = DefaultCall
    /\ src = Dataset("rgb", 600, 600, None)
    /\ loc = NoLocals
    /\ handles = [h \in HandleNames |-> "none"]
    /\ ctx = <<>>
    /\ warns = <<>>
    /\ exc = "none"
    /\ tmp = NoStaging
    /\ dest = NoDest

InitValidate ==
    /\ TranslateIdle
    /\ ProfilesIdle
    /\ CliIdle
    /\ vpc = "idle"
    /\ file \in Files
    /\ vloc = NoValidateLocals
    /\ vhandles = [src |-> "none", ovr |-> EmptyDict]
    /\ vchecks = {}
    /\ vret = None
    /\ reports = [s \in BOOLEAN |-> None]

\* the value cog_validate returns
Returns(is_valid, errors, warnings) ==
    /\ vret' = Some([is_valid |-> is_valid, errors |-> errors,
                     warnings |-> warnings])
    /\ reports' = [reports EXCEPT ![vloc.strict] =
                      Some([is_valid |-> is_valid, errors |-> errors,
                            warnings |-> warnings,
                            runs |-> IF @ = None THEN 1
                                     ELSE Min(@[1].runs + 1, MaxRuns)])]
    /\ vpc' = "returned"

\* VCall that keeps the errors and warnings of the call before
VCall_KeepsFindings ==
    /\ vpc \in {"idle", "returned", "raised"}
    /\ \E strict \in BOOLEAN :
          vloc' = [vloc EXCEPT !.strict = strict]
    /\ vchecks' = {}
    /\ vret' = None
    /\ vhandles' = [src |-> "none", ovr |-> EmptyDict]
    /\ \E gdal_at_least_22 \in BOOLEAN :
          vpc' = IF gdal_at_least_22 THEN "open" ELSE "raised"
    /\ UNCHANGED <<file, reports>>

\* lines 451-458: a call of cog_validate(src_path, strict) begins; an engine
\* older than 2.2 makes it raise
VCall ==
    /\ vpc \in {"idle", "returned", "raised"}
    /\ \E strict \in BOOLEAN :
          vloc' = [NoValidateLocals EXCEPT !.strict = strict]
    /\ vchecks' = {}
    /\ vret' = None
    /\ vhandles' = [src |-> "none", ovr |-> EmptyDict]
    /\ \E gdal_at_least_22 \in BOOLEAN :
          vpc' = IF gdal_at_least_22 THEN "open" ELSE "raised"
    /\ UNCHANGED <<file, reports>>

\* line 461: rasterio.open(src_path)
VOpen ==
    /\ vpc = "open"
    /\ vhandles' = [vhandles EXCEPT !.src = "open"]
    /\ vpc' = "driver"
    /\ UNCHANGED <<file, vloc, vchecks, vret, reports>>

\* VDriver without the early return: the error is recorded and the checks
\* go on
VDriver_NoReturn ==
    /\ vpc = "driver"
    /\ vchecks' = vchecks \cup {"driver"}
    /\ vloc' = [vloc EXCEPT !.errors =
                   IF NotGeoTIFF(file) THEN Append(@, <<"not_geotiff", 0>>)
                   ELSE @]
    /\ vpc' = "sidecar"
    /\ UNCHANGED <<file, vhandles, vret, reports>>

\* lines 462-469
VDriver ==
    /\ vpc = "driver"
    /\ vchecks' = vchecks \cup {"driver"}
    /\ IF NotGeoTIFF(file)
       THEN LET errors == Append(vloc.errors, <<"not_geotiff", 0>>)
            IN  /\ vloc' = [vloc EXCEPT !.errors = errors]
                /\ vhandles' = [vhandles EXCEPT !.src = "closed"]
                /\ Returns(FALSE, errors, vloc.warnings)
       ELSE /\ vpc' = "sidecar"
            /\ UNCHANGED <<vloc, vhandles, vret, reports>>
    /\ UNCHANGED file

\* lines 471-474
VSidecar ==
    /\ vpc = "sidecar"
    /\ vchecks' = vchecks \cup {"sidecar"}
    /\ vloc' = [vloc EXCEPT !.errors =
                   IF ExternalOverviews(file)
                   THEN Append(@, <<"external_overviews", 0>>) ELSE @]
    /\ vpc' = "tiling"
    /\ UNCHANGED <<file, vhandles, vret, reports>>

\* lines 476-487
VTiling ==
    /\ vpc = "tiling"
    /\ vchecks' = vchecks \cup {"tiling"}
    /\ vloc' = [vloc EXCEPT !.errors = @ \o TilingErrors(file),
                            !.warnings = @ \o TilingWarnings(file)]
    /\ vpc' = "main_ifd"
    /\ UNCHANGED <<file, vhandles, vret, reports>>

\* lines 489-512: the main IFD offset, and the order of the decimations
VMainIFD ==
    /\ vpc = "main_ifd"
    /\ vchecks' = vchecks \cup {"main_ifd", "sorted"}
    /\ vloc' = [vloc EXCEPT !.errors = @ \o MainIFDErrors(file.ifd_offset)
                                         \o SortedErrors(OverviewsOf(file)),
                            !.ifd_offsets = <<file.ifd_offset>>,
                            !.ix = 0]
    /\ vpc' = "overview_ifd"
    /\ UNCHANGED <<file, vhandles, vret, reports>>

\* lines 514-546: one iteration of the loop over the overviews
VOverviewIFD ==
    /\ vpc = "overview_ifd"
    /\ vloc.ix < Len(file.levels)
    /\ vchecks' = vchecks \cup {"overview_ifd"}
    /\ LET level == file.levels[vloc.ix + 1]
           offsets == Append(vloc.ifd_offsets, level.ifd_offset)
       IN  vloc' = [vloc EXCEPT !.ifd_offsets = offsets,
                                !.errors = @ \o OverviewErrors(vloc.ix,
                                                    level.dec, offsets),
                                !.ix = @ + 1]
    /\ UNCHANGED <<vpc, file, vhandles, vret, reports>>

\* lines 548-588: the first-block offsets and their order; the with-block of
\* the dataset ends
VBlockOffsets ==
    /\ vpc = "overview_ifd"
    /\ vloc.ix >= Len(file.levels)
    /\ vchecks' = vchecks \cup {"block_after_ifd", "block_order"}
    /\ LET data_offsets ==
               <<DataOffset(file.block_offset)>> \o
               [i \in 1..Len(file.levels) |->
                   DataOffset(file.levels[i].block_offset)]
       IN  vloc' = [vloc EXCEPT
                      !.data_offsets = data_offsets,
                      !.errors = @
                         \o BlockAfterIFDErrors(data_offsets,
                               vloc.ifd_offsets, Len(file.levels))
                         \o OverviewBlockOrderErrors(data_offsets,
                               Len(data_offsets) - 2)
                         \o MainBlockOrderErrors(data_offsets),
                      !.ix = 0]
    /\ vhandles' = [vhandles EXCEPT !.src = "closed"]
    /\ vpc' = "reopen"
    /\ UNCHANGED <<file, vret, reports>>

\* line 591: rasterio.open(src_path, OVERVIEW_LEVEL=ix)
VReopen ==
    /\ vpc = "reopen"
    /\ vloc.ix < Len(file.levels)
    /\ vhandles' = [vhandles EXCEPT !.ovr = Update(@, vloc.ix :> "open")]
    /\ vpc' = "reopened"
    /\ UNCHANGED <<file, vloc, vchecks, vret, reports>>

\* lines 592-594: the check of the re-opened level; its with-block ends
VOverviewTiling ==
    /\ vpc = "reopened"
    /\ vchecks' = vchecks \cup {"overview_tiling"}
    /\ vloc' = [vloc EXCEPT !.errors = @ \o ReopenErrors(vloc.ix,
                                              file.levels[vloc.ix + 1]),
                            !.ix = @ + 1]
    /\ vhandles' = [vhandles EXCEPT !.ovr = Update(@, vloc.ix :> "closed")]
    /\ vpc' = "reopen"
    /\ UNCHANGED <<file, vret, reports>>

\* lines 596-609
VReturn ==
    /\ vpc = "reopen"
    /\ vloc.ix >= Len(file.levels)
    /\ Returns(IsValid(vloc.errors, vloc.warnings, vloc.strict),
               vloc.errors, vloc.warnings)
    /\ UNCHANGED <<file, vloc, vhandles, vchecks>>

\* the steps of a call in progress
ValidateBody ==
    \/ VOpen \/ VDriver \/ VSidecar \/ VTiling \/ VMainIFD
    \/ VOverviewIFD \/ VBlockOffsets \/ VReopen \/ VOverviewTiling
    \/ VReturn

ValidateNext == VCall \/ ValidateBody

NextValidate == ValidateNext /\ UNCHANGED <<tvars, pvars, cvars>>

SpecValidate == InitValidate /\ [][NextValidate]_vars

---------------------------------------------------------------------------
(* Claims about cog_validate, checked under SpecValidate *)

\* C1: whenever cog_validate has returned, is_valid is exactly "errors is
\* empty and not (strict and warnings is non-empty)"; and the errors and
\* warnings returned for the file with strict=True are those returned for
\* it with strict=False.
C1_ValidityFormula ==
    /\ vpc = "returned" =>
          vret[1].is_valid =
             (vret[1].errors = <<>>
              /\ ~(vloc.strict /\ vret[1].warnings # <<>>))
    /\ (reports[TRUE] # None /\ reports[FALSE] # None) =>
          /\ reports[TRUE][1].errors = reports[FALSE][1].errors
          /\ reports[TRUE][1].warnings = reports[FALSE][1].warnings

\* C1 witness: a file that yields only warnings has been validated both
\* ways: valid without strict, invalid with strict
C1_Witness ==
    /\ reports[TRUE] # None /\ reports[FALSE] # None
    /\ reports[FALSE][1].errors = <<>>
    /\ reports[FALSE][1].warnings # <<>>
    /\ reports[FALSE][1].is_valid
    /\ ~reports[TRUE][1].is_valid

\* C2: once a file whose driver is not GTiff has been opened, the call only
\* performs the driver check and returns (it never raises): the value is
\* (False, ["The file is not a GeoTIFF"], []), no later check has been
\* performed and no overview level has been re-opened.
C2_NotGeoTIFFShortCircuit ==
    (NotGeoTIFF(file) /\ vhandles.src # "none") =>
        /\ vpc \in {"driver", "returned"}
        /\ vchecks \subseteq {"driver"}
        /\ vhandles.ovr = EmptyDict
        /\ vpc = "returned" =>
              /\ vret = Some([is_valid |-> FALSE,
                              errors |-> <<<<"not_geotiff", 0>>>>,
                              warnings |-> <<>>])
              /\ vchecks = {"driver"}

\* C2 witness: a call on a file that is not a GeoTIFF has returned
C2_Witness ==
    /\ NotGeoTIFF(file)
    /\ vpc = "returned"
    /\ vret # None
    /\ ~vret[1].is_valid

---------------------------------------------------------------------------
(* Claims about cog_translate, checked under Spec *)

\* the indexes the call asks for: its own, or every band of the source
RequestedIndexes == IF call.indexes # <<>> THEN call.indexes ELSE Indexes(src)

\* the nodata value the call works with: its own, or the source's
RequestedNodata == IF call.nodata # None THEN call.nodata ELSE src.nodata

\* how many times warning w has been emitted
Emitted(w) == Cardinality({i \in 1..Len(warns) : warns[i] = w})

\* the staging handles of a call
StagingHandles == {"memfile", "tmpraster", "tmp_dst"}

\* C3: a call with a colormap and more than one output band index raises
\* IncompatibleOptions (once its source is open), never gets past the
\* colormap check, never creates a staging file or dataset and leaves the
\* destination path untouched.
C3_ColormapMultiBand ==
    (call.colormap /\ Len(RequestedIndexes) > 1) =>
        /\ pc \in {"start", "resolve", "check_colormap", "exit_ctx", "done"}
        /\ \A h \in StagingHandles \cup {"vrt"} : handles[h] = "none"
        /\ tmp = NoStaging
        /\ dest = NoDest
        /\ (pc \in {"exit_ctx", "done"} /\ handles["source"] # "none") =>
              exc = "IncompatibleOptions"

\* C3 witness: a call with a colormap and several indexes has ended with
\* IncompatibleOptions
C3_Witness ==
    /\ call.colormap
    /\ Len(RequestedIndexes) > 1
    /\ pc = "done"
    /\ exc = "IncompatibleOptions"

\* the compression of the call is JPEG, whatever its case
JpegRequested ==
    /\ "compress" \in DOMAIN call.dst_kwargs
    /\ call.dst_kwargs["compress"] \in {"JPEG", "jpeg", "Jpeg"}

\* the bands of the source that are not alpha, in order
NonAlphaBands ==
    SelectSeq(Indexes(src), LAMBDA b : src.colorinterp[b] # "alpha")

\* the case of C4: JPEG, no mask asked for, nodata or alpha on the source
LossyTransparency ==
    /\ JpegRequested
    /\ ~call.add_mask
    /\ (RequestedNodata # None \/ "alpha" \in Range(src.colorinterp))

\* C4: when the mask policy has been applied (the call stands at the
\* block-size step): with JPEG compression in any case, add_mask not
\* requested and a nodata value or an alpha band, add_mask is true, one
\* warning was emitted and the indexes are the non-alpha bands exactly when
\* the number of requested indexes is neither 1 nor 3; otherwise add_mask and
\* the indexes are the caller's and nothing was emitted.
C4_LossyForcesMask ==
    pc = "blocksize" =>
        IF LossyTransparency
        THEN /\ loc.add_mask
             /\ warns = <<"UserWarning">>
             /\ loc.indexes = IF Len(RequestedIndexes) \notin {1, 3}
                              THEN NonAlphaBands ELSE RequestedIndexes
        ELSE /\ loc.add_mask = call.add_mask
             /\ warns = <<>>
             /\ loc.indexes = RequestedIndexes

\* C4 witness: upper-case JPEG on a four-band source with alpha and no
\* indexes given: the mask is forced and the indexes are narrowed to 1,2,3
C4_Witness ==
    /\ pc = "blocksize"
    /\ LossyTransparency
    /\ call.dst_kwargs["compress"] = "JPEG"
    /\ call.indexes = <<>>
    /\ Len(src.colorinterp) = 4
    /\ loc.add_mask
    /\ loc.indexes = <<1, 2, 3>>

\* the caller gave both block-size keys
BlockKeysGiven == {"blockxsize", "blockysize"} \subseteq DOMAIN call.dst_kwargs

\* min(blockxsize, blockysize) as the caller gave them
RequestedTileSize ==
    IF call.dst_kwargs["blockxsize"] < call.dst_kwargs["blockysize"]
    THEN call.dst_kwargs["blockxsize"] ELSE call.dst_kwargs["blockysize"]

\* the source is narrower or lower than the requested tile size
SourceSmallerThanTile ==
    src.width < RequestedTileSize \/ src.height < RequestedTileSize

SmallRaster == Min(src.width, src.height) < 64

\* the block-size step has assigned tilesize
Reconciled == loc.tilesize > 0

\* the options of the final copy carry no tiling or block-size key
UntiledOptions ==
    DOMAIN dest.options \cap {"tiled", "blockxsize", "blockysize"} = {}

LargestPowerOfTwoBelow(t, m) ==
    /\ \E k \in 0..20 : t = 2 ^ k
    /\ t <= m
    /\ 2 * t > m

\* C6: when the block-size step has ended without raising: if the source
\* width or height is smaller than min(blockxsize, blockysize), tilesize is
\* the largest power of two <= min(width, height) and, when that is >= 64,
\* blockxsize and blockysize both hold it and one IncompatibleBlockRasterSize
\* warning was emitted; if neither is smaller, tilesize is the minimum, the
\* block-size keys are the caller's and no such warning was emitted.
C6_BlockSizeReconciliation ==
    (pc = "vrt_params" /\ BlockKeysGiven) =>
        IF SourceSmallerThanTile
        THEN /\ LargestPowerOfTwoBelow(loc.tilesize,
                                       Min(src.width, src.height))
             /\ loc.tilesize >= 64 =>
                   /\ loc.dst_kwargs["blockxsize"] = loc.tilesize
                   /\ loc.dst_kwargs["blockysize"] = loc.tilesize
                   /\ Emitted("IncompatibleBlockRasterSize") = 1
        ELSE /\ loc.tilesize = RequestedTileSize
             /\ loc.dst_kwargs["blockxsize"] = call.dst_kwargs["blockxsize"]
             /\ loc.dst_kwargs["blockysize"] = call.dst_kwargs["blockysize"]
             /\ Emitted("IncompatibleBlockRasterSize") = 0

\* C6 witness: blocks of 512 on a raster 171 wide were shrunk to 128
C6_Witness ==
    /\ pc = "vrt_params"
    /\ BlockKeysGiven
    /\ RequestedTileSize = 512
    /\ src.width = 171
    /\ loc.tilesize = 128
    /\ loc.dst_kwargs["blockxsize"] = 128
    /\ loc.dst_kwargs["blockysize"] = 128
    /\ Emitted("IncompatibleBlockRasterSize") = 1

\* n is a power of two that is >= 64
PowerOfTwoFrom64(n) == n >= 64 /\ \E k \in 0..20 : n = 2 ^ k

\* the block-size keys of the options of the final copy
FinalBlockKeys == DOMAIN dest.options \cap {"blockxsize", "blockysize"}

\* C7 as stated: the block-size keys of the creation options of every final
\* copy hold powers of two >= 64.
C7_FinalBlockSizes ==
    dest.state = "written" =>
        \A k \in FinalBlockKeys : PowerOfTwoFrom64(dest.options[k])

\* C7 amended: when the caller's blockxsize and blockysize are powers of
\* two >= 64, the block-size keys of the creation options of every final
\* copy hold powers of two >= 64.
C7_FinalBlockSizesOfGoodRequest ==
    (/\ dest.state = "written"
     /\ BlockKeysGiven
     /\ PowerOfTwoFrom64(call.dst_kwargs["blockxsize"])
     /\ PowerOfTwoFrom64(call.dst_kwargs["blockysize"])) =>
        \A k \in FinalBlockKeys : PowerOfTwoFrom64(dest.options[k])

\* C7 witness: a copy was written with blocks of 128 where the caller asked
\* for 512 on a raster 171 wide
C7_Witness ==
    /\ dest.state = "written"
    /\ BlockKeysGiven
    /\ RequestedTileSize = 512
    /\ src.width = 171
    /\ FinalBlockKeys = {"blockxsize", "blockysize"}
    /\ dest.options["blockxsize"] = 128
    /\ dest.options["blockysize"] = 128

\* C8: the block-size reconciliation never raises: no call ever carries the
\* KeyError that only that step can raise.
C8_ReconciliationNeverRaises == exc # "KeyError"

\* the staging dataset has been created
Staged == handles["tmp_dst"] # "none"

\* the staging metadata carries a nodata value
StagedNodata == "nodata" \in DOMAIN tmp.meta /\ tmp.meta["nodata"] # None

C10_HandleOwnership ==
    /\ call.source_open => handles["source"] = "open"
    /\ pc = "done" =>
          /\ \A h \in HandleNames \ {"source"} :
                handles[h] \in {"none", "closed", "removed"}
          /\ ~call.source_open => handles["source"] \in {"none", "closed"}
          /\ ctx = <<>>

\* C10 witness: a call on an open dataset failed after it had opened the
\* warped view and the staging dataset: both are closed, the source is open
C10_Witness ==
    /\ pc = "done"
    /\ exc = "EngineError"
    /\ call.source_open
    /\ handles["source"] = "open"
    /\ handles["vrt"] = "closed"
    /\ handles["tmp_dst"] = "closed"

---------------------------------------------------------------------------
(* Further claims about cog_translate, checked under Spec *)

\* C11: when the staging is on disk, the temporary file exists as long as
\* the staging dataset is open; it is removed only once the body is over
\* (after the final copy when the body completed) and the staging dataset is
\* closed; and when the call has ended, completed or raised, the file no
\* longer exists.
C11_TemporaryFileRemoved ==
    /\ handles["tmp_dst"] = "open" /\ ~loc.in_memory =>
          handles["tmpraster"] = "exists"
    /\ handles["tmpraster"] = "removed" =>
          /\ pc \in {"exit_ctx", "done"}
          /\ handles["tmp_dst"] \in {"none", "closed"}
          /\ exc = "none" => dest.state = "written"
    /\ pc = "done" => handles["tmpraster"] \in {"none", "removed"}

\* C11 witness: a call staged on disk raised while it wrote the windows and
\* has ended: the staging dataset is closed and the file removed
C11_Witness ==
    /\ pc = "done"
    /\ exc = "EngineError"
    /\ tmp.written > 0
    /\ dest.state = "absent"
    /\ handles["tmp_dst"] = "closed"
    /\ handles["tmpraster"] = "removed"

\* the smaller dimension of the warped view
SmallerSide ==
    IF loc.vrt_width < loc.vrt_height THEN loc.vrt_width ELSE loc.vrt_height

\* the overview list has been built
OverviewsBuilt == tmp.overviews # None

\* s is <<2, 4, ..., 2^Len(s)>>
PowersOfTwoFromTwo(s) == \A j \in 1..Len(s) : s[j] = 2 ^ j

\* the block-size step found the raster too small to be tiled
CannotBeTiled == SmallRaster /\ BlockKeysGiven /\ SourceSmallerThanTile

KernelName ==
    CASE call.overview_resampling = "nearest" -> "NEAREST"
      [] call.overview_resampling = "bilinear" -> "BILINEAR"

\* every source tag other than OVR_RESAMPLING_ALG is in the output, with the
\* value of additional_cog_metadata if it has one and the source's otherwise
OtherTagsCopied ==
    \A k \in DOMAIN src.tags \ {"OVR_RESAMPLING_ALG"} :
        /\ k \in DOMAIN dest.tags
        /\ dest.tags[k] = IF k \in DOMAIN call.additional_cog_metadata
                          THEN call.additional_cog_metadata[k]
                          ELSE src.tags[k]

\* C13 as stated: the OVR_RESAMPLING_ALG tag of every output is the
\* upper-cased kernel name, whatever the source tags and
\* additional_cog_metadata hold for it, and the other source tags are copied
\* unless additional_cog_metadata overrides them.
C13_ResamplingTag ==
    dest.state = "written" =>
        /\ "OVR_RESAMPLING_ALG" \in DOMAIN dest.tags
        /\ dest.tags["OVR_RESAMPLING_ALG"] = KernelName
        /\ OtherTagsCopied

\* C13 amended: the OVR_RESAMPLING_ALG tag of every output is the upper-cased
\* kernel name, whatever the source tags hold for it, unless
\* additional_cog_metadata carries that key, whose value is then written; the
\* other source tags are copied unless additional_cog_metadata overrides
\* them.
C13_ResamplingTagUnlessOverridden ==
    dest.state = "written" =>
        /\ "OVR_RESAMPLING_ALG" \in DOMAIN dest.tags
        /\ dest.tags["OVR_RESAMPLING_ALG"] =
              IF "OVR_RESAMPLING_ALG" \in DOMAIN call.additional_cog_metadata
              THEN call.additional_cog_metadata["OVR_RESAMPLING_ALG"]
              ELSE KernelName
        /\ OtherTagsCopied

\* C13 witness: a source tagged OVR_RESAMPLING_ALG=CUBIC was translated with
\* bilinear overviews and a comment: the output says BILINEAR, keeps
\* DatasetName and has the comment
C13_Witness ==
    /\ dest.state = "written"
    /\ "OVR_RESAMPLING_ALG" \in DOMAIN src.tags
    /\ call.overview_resampling = "bilinear"
    /\ dest.tags = [DatasetName |-> "my useful dataset",
                    OVR_RESAMPLING_ALG |-> "BILINEAR",
                    comment |-> "it should work"]

\* the warped view has been opened
Warped == handles["vrt"] # "none"

\* C14: without web-optimization, the warped view, the staging dataset and
\* the destination, once each exists, have the width and the height of the
\* source.
C14_DimensionsKept ==
    ~call.web_optimized =>
        /\ Warped =>
              loc.vrt_width = src.width /\ loc.vrt_height = src.height
        /\ Staged =>
              /\ tmp.meta["width"] = src.width
              /\ tmp.meta["height"] = src.height
        /\ dest.state = "written" =>
              dest.width = src.width /\ dest.height = src.height

\* C14 witness: a source 171 wide and 600 high was translated with a forced
\* block size: the destination is 171 wide and 600 high
C14_Witness ==
    /\ dest.state = "written"
    /\ ~call.web_optimized
    /\ src.width = 171
    /\ src.height = 600
    /\ Emitted("IncompatibleBlockRasterSize") = 1
    /\ tmp.meta["width"] = 171
    /\ tmp.meta["height"] = 600
    /\ dest.width = 171
    /\ dest.height = 600

---------------------------------------------------------------------------
(* Further claims about cog_validate, checked under SpecValidate *)

\* a run returns in this step
ReturnsNow == vpc # "returned" /\ vpc' = "returned"

Found(list, e) == \E i \in 1..Len(list) : list[i] = e

\* how many times e is in the list
Count(list, e) == Cardinality({i \in 1..Len(list) : list[i] = e})

\* the running call has performed check c
Checked(c) == c \in vchecks

\* C16: once the tiling check was made on a GeoTIFF: if width and height are
\* both above 512, the not-tiled error is there exactly when the file is not
\* tiled and the missing-overviews warning exactly when it has no overviews;
\* if width <= 512 or height <= 512 neither is there.
C16_TilingCheck ==
    Checked("tiling") =>
        LET large == file.width > 512 /\ file.height > 512
        IN  /\ Found(vloc.errors, <<"not_tiled", 0>>) <=>
                  (large /\ ~file.is_tiled)
            /\ Found(vloc.warnings, <<"no_overviews", 0>>) <=>
                  (large /\ Len(file.levels) = 0)
            /\ Count(vloc.errors, <<"not_tiled", 0>>) <= 1
            /\ Count(vloc.warnings, <<"no_overviews", 0>>) <= 1

\* C16 witness: a file 513 wide and 512 high, not tiled and without
\* overviews, went through the tiling check with no finding
C16_Witness ==
    /\ Checked("tiling")
    /\ file.width = 513
    /\ file.height = 512
    /\ ~file.is_tiled
    /\ Len(file.levels) = 0
    /\ vloc.errors = <<>>
    /\ vloc.warnings = <<>>

\* overview i (1 = the first) has been through the loop over the overviews
Walked(i) ==
    \/ Checked("block_after_ifd")
    \/ vpc = "overview_ifd" /\ i <= vloc.ix

\* the IFD offset of the level before overview i: the main image's for the
\* first overview
PreviousIFD(i) ==
    IF i = 1 THEN file.ifd_offset ELSE file.levels[i - 1].ifd_offset

Levels == 0..Len(file.levels)

\* the first-block offset of a level, as an optional value
BlockOffsetOf(k) ==
    IF k = 0 THEN file.block_offset ELSE file.levels[k].block_offset

IFDOffsetOf(k) == IF k = 0 THEN file.ifd_offset ELSE file.levels[k].ifd_offset

\* the first block of level k is known and does not come after the level's
\* IFD
BlockNotAfterIFD(k) ==
    BlockOffsetOf(k) # None /\ BlockOffsetOf(k)[1] <= IFDOffsetOf(k)

\* the last level: the smallest overview, the main image without overviews
LastLevel == Len(file.levels)

\* one of the two block-before-IFD errors is reported
BlockBeforeIFDFound ==
    \/ Found(vloc.errors, <<"smallest_block_before_ifd", 0>>)
    \/ Found(vloc.errors, <<"block_before_ifd", 0>>)

\* C18 as stated, any error counting as the report: once the block offsets
\* were checked, a level whose first block does not exceed its own IFD
\* offset has made cog_validate report an error.
C18_BlockAfterIFD ==
    Checked("block_order") =>
        \A k \in Levels : BlockNotAfterIFD(k) => vloc.errors # <<>>

\* C18 amended: the block-before-IFD error is reported exactly when the
\* first block of the last level (the smallest overview, or the main image
\* when there is no overview) is known and comes before that level's IFD;
\* the other levels are not compared with their own IFD, but when the last
\* level's first block is known, any level whose first block does not
\* exceed its IFD has made cog_validate report some error.
C18_BlockAfterIFDLastLevel ==
    Checked("block_order") =>
        /\ BlockBeforeIFDFound <=> BlockNotAfterIFD(LastLevel)
        /\ BlockOffsetOf(LastLevel) # None =>
              \A k \in Levels : BlockNotAfterIFD(k) => vloc.errors # <<>>

\* C18 witness: the first block of the smallest of two overviews comes
\* before its IFD, and that error is reported
C18_Witness ==
    /\ Checked("block_order")
    /\ Len(file.levels) = 2
    /\ BlockNotAfterIFD(2)
    /\ ~BlockNotAfterIFD(1)
    /\ ~BlockNotAfterIFD(0)
    /\ Found(vloc.errors, <<"smallest_block_before_ifd", 0>>)

\* the first-block offset of level k, 0 when the tag is absent
OffsetOrZero(k) == IF BlockOffsetOf(k) = None THEN 0 ELSE BlockOffsetOf(k)[1]

\* the error of the pair made of level k and the next smaller level
PairError(k) ==
    IF k = 0 THEN <<"main_block_order", 0>>
    ELSE <<"overview_block_order", k - 1>>

\* C19: once the block offsets were checked, every pair of adjacent levels,
\* the pair (main image, overview 0) included, has its block-ordering error
\* exactly once when the first-block offset of the larger level is less than
\* that of the next smaller level, and not at all otherwise.
C19_BlockOrder ==
    Checked("block_order") =>
        \A k \in 0..(Len(file.levels) - 1) :
            Count(vloc.errors, PairError(k)) =
                IF OffsetOrZero(k) < OffsetOrZero(k + 1) THEN 1 ELSE 0

\* C19 witness: with two overviews, the main image's first block is before
\* that of overview 0 and the overviews are in order: one error, for the
\* pair (main image, overview 0)
C19_Witness ==
    /\ Checked("block_order")
    /\ Len(file.levels) = 2
    /\ OffsetOrZero(0) < OffsetOrZero(1)
    /\ OffsetOrZero(1) > OffsetOrZero(2)
    /\ OffsetOrZero(2) > 0
    /\ Count(vloc.errors, <<"main_block_order", 0>>) = 1
    /\ Count(vloc.errors, <<"overview_block_order", 0>>) = 0

\* the decimation factors of the file are in ascending order
Ascending ==
    \A i \in 1..(Len(file.levels) - 1) :
        file.levels[i].dec <= file.levels[i + 1].dec

\* C20: once the order of the decimations was checked, the 'Overviews should
\* be sorted' error is there exactly when the factors are not in ascending
\* order; and every overview the walk has passed has its decimation error
\* exactly when its factor is not greater than 1.
C20_Decimations ==
    /\ Checked("sorted") =>
          Count(vloc.errors, <<"overviews_not_sorted", 0>>) =
              IF Ascending THEN 0 ELSE 1
    /\ \A i \in 1..Len(file.levels) :
          Walked(i) =>
              Count(vloc.errors, <<"invalid_decimation", i - 1>>) =
                  IF file.levels[i].dec > 1 THEN 0 ELSE 1

\* C20 witness: the factors 2 and 1: the list is not sorted and overview 1
\* has an invalid factor; overview 0 has none
C20_Witness ==
    /\ Checked("block_order")
    /\ Len(file.levels) = 2
    /\ file.levels[1].dec = 2
    /\ file.levels[2].dec = 1
    /\ Found(vloc.errors, <<"overviews_not_sorted", 0>>)
    /\ Found(vloc.errors, <<"invalid_decimation", 1>>)
    /\ ~Found(vloc.errors, <<"invalid_decimation", 0>>)

\* C21: once the main IFD was checked, the main-IFD-offset error is there
\* (once) exactly when the offset of the main image directory is greater
\* than 300; an offset of 300 or less adds none.
C21_MainIFDOffset ==
    Checked("main_ifd") =>
        Count(vloc.errors, <<"main_ifd_offset", 0>>) =
            IF file.ifd_offset > 300 THEN 1 ELSE 0

\* C21 witness: a file whose main IFD is at byte 300 exactly went through
\* the check without that error
C21_Witness ==
    /\ Checked("main_ifd")
    /\ file.ifd_offset = 300
    /\ ~Found(vloc.errors, <<"main_ifd_offset", 0>>)

\* C22: once the associated files were looked at, the external-overview
\* error is there exactly when one of them has the suffix .ovr; and a call
\* that returns for such a file returns is_valid = FALSE with that error.
C22_ExternalOverviews ==
    /\ Checked("sidecar") =>
          (Found(vloc.errors, <<"external_overviews", 0>>)
              <=> ".ovr" \in Range(file.files))
    /\ (vret # None /\ file.driver = "GTiff" /\ ".ovr" \in Range(file.files))
          => /\ ~vret[1].is_valid
             /\ Found(vret[1].errors, <<"external_overviews", 0>>)

\* C22 witness: a file whose only flaw is an .ovr sidecar was returned
\* invalid, with that error alone
C22_Witness ==
    /\ vret # None
    /\ file.driver = "GTiff"
    /\ ".ovr" \in Range(file.files)
    /\ vret[1].errors = <<<<"external_overviews", 0>>>>
    /\ ~vret[1].is_valid

\* the overview levels (0-based) whose re-opened handle is open
OpenLevels == {i \in DOMAIN vhandles.ovr : vhandles.ovr[i] = "open"}

\* the loop of lines 590-594 is done with level i
Reopened(i) == i \in DOMAIN vhandles.ovr /\ vhandles.ovr[i] = "closed"

\* C23: every overview level is re-opened in turn: once the loop is done
\* with level i, its not-tiled error is there (once) exactly when the
\* level is wider and higher than 512 and not tiled; at most one re-opened
\* handle is open at a time, the one of the level being checked, every
\* level before it is closed, the main handle is closed by then, and a
\* call that returns for a GeoTIFF has re-opened and closed every level.
C23_OverviewTiling ==
    /\ \A i \in 0..(Len(file.levels) - 1) :
          Reopened(i) =>
              Count(vloc.errors, <<"overview_not_tiled", i>>) =
                  IF /\ file.levels[i + 1].width > 512
                     /\ file.levels[i + 1].height > 512
                     /\ ~file.levels[i + 1].is_tiled
                  THEN 1 ELSE 0
    /\ Cardinality(OpenLevels) <= 1
    /\ \A i \in OpenLevels :
          /\ vpc = "reopened" /\ i = vloc.ix
          /\ vhandles.src = "closed"
          /\ \A j \in 0..(i - 1) : Reopened(j)
          /\ DOMAIN vhandles.ovr = 0..i
    /\ (vpc = "returned" /\ ~NotGeoTIFF(file)) =>
          \A i \in 0..(Len(file.levels) - 1) : Reopened(i)

\* C23 witness: a file with two overviews, the second one larger than a
\* tile and untiled, the first one 513 x 512 and untiled, was returned
\* with the error of index 1 alone
C23_Witness ==
    /\ vpc = "returned"
    /\ Len(file.levels) = 2
    /\ file.levels[1].width = 513 /\ file.levels[1].height = 512
    /\ ~file.levels[1].is_tiled
    /\ Reopened(0) /\ Reopened(1)
    /\ vret[1].errors = <<<<"overview_not_tiled", 1>>>>

---------------------------------------------------------------------------
(* cog_profiles: the registry of creation profiles (profiles.py)           *)

\* how many returned profiles the callers hold at a time
MaxHeld == 2

\* rio_cogeo.profiles.JPEGProfile.defaults
JPEGProfile ==
    [driver |-> "GTiff", interleave |-> "pixel", tiled |-> TRUE,
     blockxsize |-> 512, blockysize |-> 512, compress |-> "JPEG",
     photometric |-> "YCbCr"]

\* rio_cogeo.profiles.ZSTDProfile.defaults
ZSTDProfile ==
    [driver |-> "GTiff", interleave |-> "pixel", tiled |-> TRUE,
     blockxsize |-> 512, blockysize |-> 512, compress |-> "ZSTD"]

\* lines 277-301, for three of the profiles: the objects COGProfiles()
\* creates, each holding the defaults of its class
\* (objects are numbered: 1..3 are the registry's)
RegistryObjects ==
    (1 :> JPEGProfile) @@ (2 :> DeflateProfile) @@ (3 :> ZSTDProfile)

COGProfiles == ("jpeg" :> 1) @@ ("deflate" :> 2) @@ ("zstd" :> 3)

\* the names callers ask for
ProfileNames ==
    {"jpeg", "JPEG", "Jpeg", "deflate", "DEFLATE", "zstd", "something"}

\* the objects get can create
CopyObjects == 4..(4 + MaxHeld)

\* line 309: the names of the registry that contain one of the listed
\* compression names
NonStandard(key) == key \in {"zstd"}

\* get returning the registry's own object
COGProfiles_get_NoCopy(reg, hp, key) ==
    LET k == Lower(key)
    IN  IF k \notin DOMAIN reg
        THEN [exc |-> "KeyError", obj |-> None, heap |-> hp,
              warned |-> FALSE]
        ELSE [exc |-> "none", obj |-> Some(reg[k]), heap |-> hp,
              warned |-> NonStandard(k)]

\* lines 303-315: COGProfiles.get(key), on the registry reg and the objects
\* hp; the copy is a new object with the mapping of the registered one
COGProfiles_get(reg, hp, key) ==
    LET k == Lower(key)
        new == CHOOSE o \in CopyObjects :
                   /\ o \notin DOMAIN hp
                   /\ \A p \in CopyObjects : p \notin DOMAIN hp => o <= p
    IN  IF k \notin DOMAIN reg
        THEN [exc |-> "KeyError", obj |-> None, heap |-> hp,
              warned |-> FALSE]
        ELSE [exc |-> "none", obj |-> Some(new),
              heap |-> (new :> hp[reg[k]]) @@ hp,
              warned |-> NonStandard(k)]

\* what the callers do to a profile they were given: the updates of create
\* (cli.py 241, 245-247) and of test_profile.py 71
ProfileUpdates ==
    {"BIGTIFF" :> "IF_SAFER",
     ("blockxsize" :> 256) @@ ("blockysize" :> 256),
     "interleave" :> "bands"}

InitProfiles ==
    /\ TranslateIdle
    /\ ValidateIdle
    /\ CliIdle
    /\ registry = COGProfiles
    /\ heap = RegistryObjects
    /\ held = EmptyDict
    /\ pret = None

\* a caller calls cog_profiles.get(name)
PGet ==
    /\ Cardinality(DOMAIN held) < MaxHeld
    /\ \E name \in ProfileNames :
          LET r == COGProfiles_get(registry, heap, name)
          IN  /\ heap' = r.heap
              /\ held' = IF r.exc = "none"
                         THEN (r.obj[1] :> Lower(name)) @@ held ELSE held
              /\ pret' = Some([name |-> name, exc |-> r.exc, obj |-> r.obj,
                               value |-> IF r.exc = "none"
                                         THEN Some(r.heap[r.obj[1]])
                                         ELSE None,
                               warned |-> r.warned])
    /\ UNCHANGED registry

\* a caller updates a profile it holds
PUpdate ==
    /\ \E o \in DOMAIN held, u \in ProfileUpdates :
          heap' = [heap EXCEPT ![o] = Update(@, u)]
    /\ UNCHANGED <<registry, held, pret>>

\* a caller lets go of a profile; an object nothing refers to is collected
PDrop ==
    /\ \E o \in DOMAIN held :
          /\ held' = [p \in (DOMAIN held) \ {o} |-> held[p]]
          /\ heap' = IF o \in {registry[n] : n \in DOMAIN registry} THEN heap
                     ELSE [p \in (DOMAIN heap) \ {o} |-> heap[p]]
    /\ UNCHANGED <<registry, pret>>

ProfilesNext == PGet \/ PUpdate \/ PDrop

NextProfiles == ProfilesNext /\ UNCHANGED <<tvars, vvars, cvars>>

SpecProfiles == InitProfiles /\ [][NextProfiles]_vars

\* C24: cog_profiles.get looks the name up whatever its case, raises
\* KeyError exactly for a name that is not registered, and hands out a copy:
\* whatever was got and changed before, the profile a get returns is the
\* defaults of the class registered under the lower-cased name, the object
\* returned is none of the registry's and none a caller already held, and
\* the registry's own profiles stay at their defaults.
C24_GetReturnsDefaults ==
    /\ pret # None =>
          /\ pret[1].exc = (IF pret[1].name \in
                                  {"jpeg", "JPEG", "Jpeg", "deflate",
                                   "DEFLATE", "zstd"}
                            THEN "none" ELSE "KeyError")
          /\ pret[1].name \in {"jpeg", "JPEG", "Jpeg"} =>
                pret[1].value = Some(JPEGProfile)
          /\ pret[1].name \in {"deflate", "DEFLATE"} =>
                pret[1].value = Some(DeflateProfile)
          /\ pret[1].name = "zstd" => pret[1].value = Some(ZSTDProfile)
          /\ pret[1].exc = "KeyError" => pret[1].value = None
    /\ \A o \in DOMAIN held : \A n \in DOMAIN registry : registry[n] # o
    /\ heap[registry["jpeg"]] = JPEGProfile
    /\ heap[registry["deflate"]] = DeflateProfile
    /\ heap[registry["zstd"]] = ZSTDProfile

\* C24 witness: a caller holds a jpeg profile it has changed, and a later
\* get("JPEG") returned another object holding the defaults
C24_Witness ==
    /\ pret # None
    /\ pret[1].name = "JPEG"
    /\ pret[1].value = Some(JPEGProfile)
    /\ \E o \in DOMAIN held :
          /\ held[o] = "jpeg"
          /\ Some(o) # pret[1].obj
          /\ heap[o] # JPEGProfile

---------------------------------------------------------------------------
(* The cogeo command line (scripts/cli.py): validate, and the --bidx       *)
(* option of create                                                        *)

\* the longest --bidx value tried, in characters
MaxBidxLen == 3

BidxChars == {"0", "1", "2", "-", ",", "a"}

\* the strings given to --bidx, as sequences of characters
BidxValues == UNION {[1..n -> BidxChars] : n \in 0..MaxBidxLen}

\* value.split(","), line 31
RECURSIVE Split(_)
Split(value) ==
    IF \A i \in 1..Len(value) : value[i] # "," THEN <<value>>
    ELSE LET c == CHOOSE i \in 1..Len(value) :
                      /\ value[i] = ","
                      /\ \A j \in 1..(i - 1) : value[j] # ","
         IN  <<SubSeq(value, 1, c - 1)>>
                 \o Split(SubSeq(value, c + 1, Len(value)))

DigitValue(ch) == CASE ch = "0" -> 0 [] ch = "1" -> 1 [] ch = "2" -> 2

IsDigits(x) ==
    /\ Len(x) > 0
    /\ \A i \in 1..Len(x) : x[i] \in {"0", "1", "2"}

RECURSIVE DigitsValue(_)
DigitsValue(x) ==
    IF Len(x) = 0 THEN 0
    ELSE 10 * DigitsValue(SubSeq(x, 1, Len(x) - 1)) + DigitValue(x[Len(x)])

\* int(x) of line 31 raises ValueError unless x is an optional sign and
\* digits
IsInt(x) ==
    \/ IsDigits(x)
    \/ Len(x) > 1 /\ x[1] = "-" /\ IsDigits(SubSeq(x, 2, Len(x)))

IntOf(x) ==
    IF x[1] = "-" THEN 0 - DigitsValue(SubSeq(x, 2, Len(x)))
    ELSE DigitsValue(x)

\* BdxParamType.convert accepting 0 as a band index
BdxConvert_NonNegative(value) ==
    LET pieces == Split(value)
    IN  IF \E i \in 1..Len(pieces) : ~IsInt(pieces[i])
        THEN [exc |-> "ClickException", bands |-> None]
        ELSE LET bands == [i \in 1..Len(pieces) |-> IntOf(pieces[i])]
             IN  IF \E i \in 1..Len(bands) : bands[i] < 0
                 THEN [exc |-> "ClickException", bands |-> None]
                 ELSE [exc |-> "none", bands |-> Some(bands)]

\* lines 28-39: BdxParamType.convert
BdxConvert(value) ==
    LET pieces == Split(value)
    IN  IF \E i \in 1..Len(pieces) : ~IsInt(pieces[i])
        THEN [exc |-> "ClickException", bands |-> None]
        ELSE LET bands == [i \in 1..Len(pieces) |-> IntOf(pieces[i])]
             IN  IF \E i \in 1..Len(bands) : ~(bands[i] > 0)
                 THEN [exc |-> "ClickException", bands |-> None]
                 ELSE [exc |-> "none", bands |-> Some(bands)]

\* validate giving the validity as its exit status
ValidateOutcome_ByStatus(is_valid) ==
    IF is_valid THEN [message |-> "is a valid", code |-> 0]
    ELSE [message |-> "is NOT a valid", code |-> 1]

\* lines 304-308: what validate prints, and the status the command ends
\* with once the function has returned
ValidateOutcome(is_valid) ==
    IF is_valid THEN [message |-> "is a valid", code |-> 0]
    ELSE [message |-> "is NOT a valid", code |-> 0]

\* the command lines: validate <input> [--strict], well-formed or with
\* something click rejects (an option the command does not declare, a
\* missing argument); create <input> <output> --bidx <value>
CommandLines ==
    {[command |-> "validate", usage_ok |-> u, strict |-> s, bidx |-> <<>>] :
        u \in BOOLEAN, s \in BOOLEAN}
    \cup {[command |-> "create", usage_ok |-> TRUE, strict |-> FALSE,
           bidx |-> b] : b \in BidxValues}

InitCli ==
    /\ TranslateIdle
    /\ ProfilesIdle
    /\ vpc = "idle"
    /\ file = GoodFile(1)
    /\ vloc = NoValidateLocals
    /\ vhandles = [src |-> "none", ovr |-> EmptyDict]
    /\ vchecks = {}
    /\ vret = None
    /\ reports = [s \in BOOLEAN |-> None]
    /\ cpc = "idle"
    /\ argv = EmptyDict
    /\ output = <<>>
    /\ exit_code = None

\* the command is started; the input of validate names one of the files
CliInvoke ==
    /\ cpc = "idle"
    /\ argv' \in CommandLines
    /\ IF argv'.command = "validate" THEN file' \in Files
       ELSE file' = file
    /\ cpc' = "parse"
    /\ UNCHANGED <<output, exit_code, vpc, vloc, vhandles, vchecks, vret,
                   reports>>

\* click parses the command line and converts the parameters (lines 84-86,
\* 284-301): a usage error ends the process with status 2, a
\* ClickException of a conversion with status 1
CliParse ==
    /\ cpc = "parse"
    /\ IF ~argv.usage_ok
       THEN exit_code' = Some(2) /\ cpc' = "exited"
       ELSE IF argv.command = "validate"
       THEN exit_code' = exit_code /\ cpc' = "validate"
       ELSE IF BdxConvert(argv.bidx).exc # "none"
       THEN exit_code' = Some(1) /\ cpc' = "exited"
       ELSE exit_code' = exit_code /\ cpc' = "create"
    /\ UNCHANGED <<argv, output, vvars>>

\* line 304: validate calls cog_validate(input, strict=strict)
CliValidateCall ==
    /\ cpc = "validate"
    /\ VCall
    /\ vloc'.strict = argv.strict
    /\ cpc' = "in_validate"
    /\ UNCHANGED <<argv, output, exit_code>>

\* cog_validate runs
CliValidateStep ==
    /\ cpc = "in_validate"
    /\ ValidateBody
    /\ UNCHANGED cvars

\* lines 305-308: cog_validate has returned; the message is printed and the
\* command ends
CliEcho ==
    /\ cpc = "in_validate"
    /\ vpc = "returned"
    /\ output' = Append(output, ValidateOutcome(vret[1].is_valid).message)
    /\ exit_code' = Some(ValidateOutcome(vret[1].is_valid).code)
    /\ cpc' = "exited"
    /\ UNCHANGED <<argv, vvars>>

\* line 304: cog_validate has raised; nothing catches the exception and the
\* process ends with status 1
CliUncaught ==
    /\ cpc = "in_validate"
    /\ vpc = "raised"
    /\ exit_code' = Some(1)
    /\ cpc' = "exited"
    /\ UNCHANGED <<argv, output, vvars>>

CliNext ==
    \/ CliInvoke \/ CliParse \/ CliValidateCall \/ CliValidateStep
    \/ CliEcho \/ CliUncaught

NextCli == CliNext /\ UNCHANGED <<tvars, pvars>>

SpecCli == InitCli /\ [][NextCli]_vars

\* the command has ended
Exited == cpc = "exited"

\* the --bidx value is a comma-separated list of positive integers
PositiveIntegers(value) ==
    \A i \in 1..Len(Split(value)) :
        LET piece == Split(value)[i]
        IN  /\ Len(piece) > 0
            /\ \A j \in 1..Len(piece) : piece[j] \in {"0", "1", "2"}
            /\ \E j \in 1..Len(piece) : piece[j] \in {"1", "2"}

\* the command line is one click accepts
ValidCommandLine ==
    /\ argv.usage_ok
    /\ argv.command = "create" => PositiveIntegers(argv.bidx)

\* C25 as stated: validate ends with status 0 for a valid and for an
\* invalid file, the validity being told by the message alone, and a status
\* other than 0 (1 or 2) occurs only for an invalid command line, such as a
\* band index that is not a positive integer.
C25_ExitCodes ==
    Exited =>
        /\ exit_code \in {Some(0), Some(1), Some(2)}
        /\ exit_code # Some(0) <=> ~ValidCommandLine
        /\ (argv.command = "validate" /\ exit_code = Some(0)) =>
              output = <<IF vret[1].is_valid THEN "is a valid"
                         ELSE "is NOT a valid">>

\* C25, amended: validate ends with status 0 whenever cog_validate returns,
\* for a valid and for an invalid file, the validity being told by the
\* message alone; a status other than 0 occurs only for an invalid command
\* line (2 for a usage error, 1 for a band index that is not a positive
\* integer) or, with status 1 and no message, when cog_validate raises, as
\* it does on an engine older than 2.2.
C25_ExitCodesUnlessRaised ==
    /\ Exited =>
           /\ exit_code \in {Some(0), Some(1), Some(2)}
           /\ exit_code # Some(0) <=>
                 (~ValidCommandLine \/
                     (argv.command = "validate" /\ vpc = "raised"))
           /\ (argv.command = "validate" /\ argv.usage_ok) =>
                 /\ vpc \in {"returned", "raised"}
                 /\ vpc = "returned" =>
                       /\ exit_code = Some(0)
                       /\ output = <<IF vret[1].is_valid THEN "is a valid"
                                     ELSE "is NOT a valid">>
                 /\ vpc = "raised" => exit_code = Some(1) /\ output = <<>>
           /\ ~argv.usage_ok => exit_code = Some(2) /\ output = <<>>
           /\ argv.command = "create" => exit_code = Some(1)
    /\ (cpc = "create") => PositiveIntegers(argv.bidx)

\* C25 witness: validate has ended with status 0 and the message of an
\* invalid file
C25_Witness ==
    /\ Exited
    /\ argv.command = "validate"
    /\ vret # None
    /\ ~vret[1].is_valid
    /\ output = <<"is NOT a valid">>
    /\ exit_code = Some(0)

---------------------------------------------------------------------------
(* Further claims about cog_translate, checked under Spec *)

\* the tags of the staging dataset have been set (line 364)
TagsSet == tmp.described

TilingSchemeKeys ==
    {"@TILING_SCHEME_NAME", "@TILING_SCHEME_ZOOM_LEVEL",
     "@TILING_SCHEME_ALIGNED_LEVELS"}

CogDriverUnavailable == call.use_cog_driver /\ ~call.gdal_at_least_31

\* C27: a call that asks for the COG driver on an engine older than 3.1
\* never copies to the destination: nothing is ever written at dst_path,
\* the call does not get past the version check, and when it ends it has
\* raised.
C27_CogDriverNeedsEngine ==
    CogDriverUnavailable =>
        /\ dest = NoDest
        /\ pc = "done" => exc # "none"
        /\ (TagsSet /\ pc # "finalize") => exc = "Exception"

\* C27 witness: such a call went as far as the version check, raised there
\* and has ended
C27_Witness ==
    /\ CogDriverUnavailable
    /\ TagsSet
    /\ pc = "done"
    /\ exc = "Exception"
    /\ dest.state = "absent"

\* every block window of the staging dataset is written, with its mask when
\* masking is active
AllWindowsWritten ==
    /\ tmp.written = loc.nwind
    /\ tmp.masked = IF WritesMask(loc.add_mask, loc.mask) THEN loc.nwind
                    ELSE 0

OverviewsAreBuilt == tmp.overviews # None

\* the copy to the destination is made in this step
CopiesNow == dest' # dest

\* C28: the order of the steps of a call. A window's mask is written with
\* its data; the overviews are built only when every window is written;
\* the descriptions and tags are set only when the overviews are built; the
\* copy to the destination is made (or fails half-way) only when the tags
\* are set, and it is made once: a call that ends without an exception has
\* done all four, and no step after the windows loop writes a window again.
C28_StepOrder ==
    /\ [](/\ tmp.masked \in {0, tmp.written}
          /\ OverviewsAreBuilt => AllWindowsWritten
          /\ TagsSet => OverviewsAreBuilt
          /\ dest.state = "written" => TagsSet
          /\ (pc = "done" /\ exc = "none") =>
                /\ dest.state = "written"
                /\ AllWindowsWritten /\ OverviewsAreBuilt /\ TagsSet)
    /\ [][/\ CopiesNow =>
                /\ dest.state = "absent"
                /\ dest'.state \in {"written", "partial"}
                /\ TagsSet /\ OverviewsAreBuilt /\ AllWindowsWritten
                /\ tmp' = tmp
          /\ (tmp'.overviews # tmp.overviews) =>
                /\ ~OverviewsAreBuilt /\ ~TagsSet /\ AllWindowsWritten
                /\ tmp'.written = tmp.written
          /\ (tmp'.described # tmp.described) =>
                /\ OverviewsAreBuilt /\ ~TagsSet
                /\ tmp'.overviews = tmp.overviews
                /\ tmp'.written = tmp.written
          /\ (tmp'.written # tmp.written) =>
                /\ ~OverviewsAreBuilt /\ ~TagsSet
                /\ tmp'.written = tmp.written + 1]_vars

\* C28 witness: a call with masking has ended without an exception after
\* writing two windows with their masks, building overviews, setting the
\* tags and copying
C28_Witness ==
    /\ pc = "done"
    /\ exc = "none"
    /\ dest.state = "written"
    /\ tmp.written = 2
    /\ tmp.masked = 2
    /\ tmp.overviews # None /\ tmp.overviews # Some(<<>>)
    /\ TagsSet

\* the call has changed its own creation options
OptionsChanged ==
    loc.dst_kwargs_object # "none" /\ loc.dst_kwargs # call.dst_kwargs

\* C30: in every state of a call, whatever it does to its creation options
\* (shrinking the block size, dropping the tiling keys, adding the
\* tiling-scheme entries, the options of the COG driver) and also when it
\* raises, the caller's dst_kwargs mapping holds exactly what was passed, and
\* the mapping the call works on is not the caller's.
C30_CallerMappingUntouched ==
    /\ CallerMapping = call.dst_kwargs
    /\ loc.dst_kwargs_object # "caller"

\* C30 witness: a call on the COG driver path has ended after changing its
\* own options, and the caller's mapping is as passed
C30_Witness ==
    /\ pc = "done"
    /\ exc = "none"
    /\ call.use_cog_driver
    /\ OptionsChanged
    /\ loc.dst_kwargs["driver"] = "COG"
    /\ CallerMapping["driver"] = "GTiff"
    /\ CallerMapping = call.dst_kwargs

---------------------------------------------------------------------------
(* Further claims about cog_validate, checked under SpecValidate *)

\* C29: once the first-block offsets were checked, a level without a
\* first-block offset counts as offset 0, and no error is there on its
\* account: no block-before-IFD error when the last level has no offset,
\* and no block-order error for a pair of adjacent levels one of which has
\* no offset.
C29_AbsentOffsetHarmless ==
    Checked("block_order") =>
        /\ \A k \in Levels :
              BlockOffsetOf(k) = None => vloc.data_offsets[k + 1] = 0
        /\ BlockOffsetOf(LastLevel) = None => ~BlockBeforeIFDFound
        /\ \A k \in 0..(Len(file.levels) - 1) :
              (BlockOffsetOf(k) = None \/ BlockOffsetOf(k + 1) = None) =>
                  ~Found(vloc.errors, PairError(k))

===========================================================================
